---- MODULE Spec2Model ----
(***************************************************************************)
(* Tappy: users, groups, group membership and group administration.        *)
(*                                                                         *)
(* The persisted state is the four tables of src/db/schema.py that the     *)
(* services touch (users, groups, groups_users, groups_admins).  The       *)
(* service methods of src/services/telegram_user.py and                    *)
(* src/services/group.py are the actions.                                  *)
(*                                                                         *)
(*   Spec      every service call runs alone, from its first query to its  *)
(*             return (one session, calls one after another); MaxUsers     *)
(*             users and one group name                                    *)
(*   SpecGroups  the same calls, for two users and MaxGroups group names   *)
(*   SpecUser  create_user alone, with varying usernames and chat ids      *)
(*   SpecConc  create_user and create_group calls of several sessions,     *)
(*             interleaved query by query, each in its own transaction     *)
(*   SpecRace  kick_from_group, promote_to_admin and assign_group calls of *)
(*             several sessions, checks and commit as separate steps       *)
(*   SpecStart the /start handler of the bot, one update after another     *)
(*   SpecStartErr  the /start handler over a storage whose queries and     *)
(*             commits can raise                                           *)
(*   SpecUpsert  create_user with varying usernames and chat ids for users *)
(*             that are members and admins of a group                      *)
(*   SpecKeys  the calls with user values whose id and telegram id are     *)
(*             chosen independently                                        *)
(*   SpecTap   commits of taps against the constraints of the taps table   *)
(***************************************************************************)
EXTENDS Integers, FiniteSets, Sequences, TLC

\* ------------------------------------------------------------------ bounds
MaxUsers == 3
MaxGroups == 2
MaxSessions == 2
MaxTime == 3
MaxTaps == 2

\* ------------------------------------------------------------- input sets
\* UserModel.id is optional; NoId stands for None.  Stored ids start at 1.
NoId == 0

\* Telegram ids are chosen by Telegram, not by the store: 10, 20, ...
TelegramIds == {10 * i : i \in 1..MaxUsers}
TwoTelegramIds == {10, 20}

AllGroupNames == <<"Test Group", "Another Group", "ExistingGroup", "NonExistentGroup">>
GroupNames == {AllGroupNames[i] : i \in 1..MaxGroups}
OneGroupName == {AllGroupNames[1]}

Usernames == {"User", "User2"}
ChatIds == {1, 2}

\* None as a username
NoName == "<None>"

\* The username and chat id that Spec's callers send for a telegram id.
DefaultUsername == "User"

\* TelegramUserCreate values: telegram_id, telegram_username, telegram_chat_id.
UserCreate(tid, name, chat) ==
    [telegram_id |-> tid, telegram_username |-> name, telegram_chat_id |-> chat]

\* The requests of concurrent sessions: two telegram ids, the username may
\* have changed.
ConcUserCreates == {UserCreate(t, n, 1) : t \in TwoTelegramIds, n \in Usernames}
ConcUserValues ==
    {[id |-> i, telegram_id |-> 10 * i] : i \in {1, 2}}
RichUserCreates ==
    {UserCreate(t, n, c) : t \in {0} \cup TelegramIds, n \in Usernames, c \in ChatIds}

\* --------------------------------------------------------------- the state
VARIABLES
    users,          \* table users: rows [id, telegram_id, telegram_username, telegram_chat_id]
    groups,         \* table groups: rows [id, name]
    groups_users,   \* association table: rows [user_id, group_id]
    groups_admins,  \* association table: rows [user_id, group_id]
    last,           \* the last service call of Spec / SpecUser: op, arguments, error, return value
    sess,           \* SpecConc: per session, the call in progress and what it has read
    taps            \* table taps: rows [id, source_user_id, scheduled_datetime,
                    \*   nagging_interval_seconds, acked_until, created_at]

db == <<users, groups, groups_users, groups_admins>>
vars == <<users, groups, groups_users, groups_admins, last, sess, taps>>

Sessions == 1..MaxSessions

\* ------------------------------------------------------------ table access
Max(S) == CHOOSE x \in S : \A y \in S : y <= x

\* autoincrement primary keys
NextId(rows) == IF rows = {} THEN 1 ELSE Max({r.id : r \in rows}) + 1

\* query(User).filter_by(telegram_id=...): the matching rows
UsersByTelegramId(U, tid) == {u \in U : u.telegram_id = tid}

\* (variant: the id filter is left out when the id is None)
UsersByIdLoose(U, id) == IF id = NoId THEN U ELSE {u \in U : u.id = id}

\* query(User).filter_by(id=...): the matching rows (none for id None)
UsersById(U, id) == {u \in U : id # NoId /\ u.id = id}

\* query(Group).filter_by(name=...): the matching rows
GroupsByName(G, name) == {g \in G : g.name = name}

\* .first() of a non-empty result
First(rows) == CHOOSE r \in rows : TRUE

Link(u, g) == [user_id |-> u.id, group_id |-> g.id]

\* Group.users, Group.admins, User.groups, User.admin_of_groups
GroupUsers(U, GU, g) == {u \in U : Link(u, g) \in GU}
GroupAdmins(U, GA, g) == {u \in U : Link(u, g) \in GA}
UserGroups(G, GU, u) == {g \in G : Link(u, g) \in GU}
UserAdminOfGroups(G, GA, u) == {g \in G : Link(u, g) \in GA}

\* ------------------------------------------------------- returned models
\* TelegramUser: telegram_id must be > 0
ValidTelegramUser(u) == u.telegram_id > 0

TelegramUser(u) ==
    [id |-> u.id, telegram_id |-> u.telegram_id,
     telegram_username |-> u.telegram_username,
     telegram_chat_id |-> u.telegram_chat_id]

\* GroupModel: id, name, admins and users as TelegramUser values
GroupModel(U, GU, GA, g) ==
    [id |-> g.id, name |-> g.name,
     admins |-> {TelegramUser(u) : u \in GroupAdmins(U, GA, g)},
     users |-> {TelegramUser(u) : u \in GroupUsers(U, GU, g)}]

GroupRef(g) == [id |-> g.id, name |-> g.name]

\* TelegramGroupedUser: the user with groups and admin_of_groups
TelegramGroupedUser(G, GU, GA, u) ==
    [id |-> u.id, telegram_id |-> u.telegram_id,
     telegram_username |-> u.telegram_username,
     telegram_chat_id |-> u.telegram_chat_id,
     groups |-> {GroupRef(g) : g \in UserGroups(G, GU, u)},
     admin_of_groups |-> {GroupRef(g) : g \in UserAdminOfGroups(G, GA, u)}]

\* ---------------------------------------------------------- call records
NoUser == [id |-> NoId, telegram_id |-> 0]
NoReturn == [none |-> TRUE]
Ok == "ok"

NoCreate == [telegram_id |-> 0, telegram_username |-> "", telegram_chat_id |-> 0]

Call(op, group, actor, target, err, ret) ==
    [op |-> op, group |-> group, actor |-> actor, target |-> target,
     tuc |-> NoCreate, err |-> err, ret |-> ret]

\* a create_user call: the request is a TelegramUserCreate
UserCall(tuc, err, ret) ==
    [op |-> "create_user", group |-> "", actor |-> NoUser, target |-> NoUser,
     tuc |-> tuc, err |-> err, ret |-> ret]

\* The user values a caller passes: what the services returned for a stored
\* user, and a value without internal id for a telegram id that is not stored.
UserValues(T) ==
    {[id |-> u.id, telegram_id |-> u.telegram_id] : u \in users}
    \cup {[id |-> NoId, telegram_id |-> t] :
              t \in {x \in T : \A u \in users : u.telegram_id # x}}

\* The callers of the sequential specifications: new users register in the
\* order of their telegram ids, and new groups are named in the order of
\* AllGroupNames.
InOrder(T, tid) ==
    \A t \in T : t < tid => \E u \in users : u.telegram_id = t

NamedInOrder(name) ==
    \A i \in DOMAIN AllGroupNames, j \in DOMAIN AllGroupNames :
        (AllGroupNames[i] = name /\ j < i) => \E g \in groups : g.name = AllGroupNames[j]

Init ==
    /\ users = {}
    /\ groups = {}
    /\ groups_users = {}
    /\ groups_admins = {}
    /\ last = Call("init", "", NoUser, NoUser, Ok, NoReturn)
    /\ sess = [s \in Sessions |-> [pc |-> "idle"]]
    /\ taps = {}

\* ===================================================== sequential services
\* ---- TelegramUserService.create_user
\* The row that create_user leaves for the telegram id of the request.
\* (variant: a stored user keeps its username)
CreateUserRowKeepName(U, tuc) ==
    LET found == UsersByTelegramId(U, tuc.telegram_id) IN
    IF found # {}
    THEN First(found)
    ELSE [id |-> NextId(U), telegram_id |-> tuc.telegram_id,
          telegram_username |-> tuc.telegram_username,
          telegram_chat_id |-> tuc.telegram_chat_id]

\* (variant: the chat id of a stored user follows the request as well)
CreateUserRowUpdateChat(U, tuc) ==
    LET found == UsersByTelegramId(U, tuc.telegram_id) IN
    IF found # {}
    THEN [First(found) EXCEPT !.telegram_username = tuc.telegram_username,
                              !.telegram_chat_id = tuc.telegram_chat_id]
    ELSE [id |-> NextId(U), telegram_id |-> tuc.telegram_id,
          telegram_username |-> tuc.telegram_username,
          telegram_chat_id |-> tuc.telegram_chat_id]

CreateUserRow(U, tuc) ==
    LET found == UsersByTelegramId(U, tuc.telegram_id) IN
    IF found # {}
    THEN [First(found) EXCEPT !.telegram_username = tuc.telegram_username]
    ELSE [id |-> NextId(U), telegram_id |-> tuc.telegram_id,
          telegram_username |-> tuc.telegram_username,
          telegram_chat_id |-> tuc.telegram_chat_id]

create_user(tuc) ==
    LET found == UsersByTelegramId(users, tuc.telegram_id)
        row == CreateUserRow(users, tuc)
    IN  /\ users' = (users \ found) \cup {row}
        /\ last' = UserCall(tuc,
                            IF ValidTelegramUser(row) THEN Ok ELSE "ValidationError",
                            IF ValidTelegramUser(row) THEN TelegramUser(row) ELSE NoReturn)
        /\ UNCHANGED <<groups, groups_users, groups_admins, sess, taps>>

\* ---- GroupService.create_group
\* (variant: the creator is looked up before the name)
CreateGroupErrorCreatorFirst(U, G, name, creating_user) ==
    IF UsersById(U, creating_user.id) = {} THEN "CreatorNotFound"
    ELSE IF GroupsByName(G, name) # {} THEN "GroupAlreadyExists"
    ELSE Ok

CreateGroupError(U, G, name, creating_user) ==
    IF GroupsByName(G, name) # {} THEN "GroupAlreadyExists"
    ELSE IF UsersById(U, creating_user.id) = {} THEN "CreatorNotFound"
    ELSE Ok

\* new_group.users.append(creator_user)
NewGroupUsers(GU, creator_user, new_group) == GU \cup {Link(creator_user, new_group)}

\* new_group.admins.append(creator_user)
NewGroupAdminsNone(GA, creator_user, new_group) == GA
NewGroupAdmins(GA, creator_user, new_group) == GA \cup {Link(creator_user, new_group)}

create_group(name, creating_user) ==
    LET err == CreateGroupError(users, groups, name, creating_user) IN
    IF err # Ok
    THEN /\ last' = Call("create_group", name, creating_user, NoUser, err, NoReturn)
         /\ UNCHANGED <<users, groups, groups_users, groups_admins, sess, taps>>
    ELSE LET creator_user == First(UsersById(users, creating_user.id))
             new_group == [id |-> NextId(groups), name |-> name]
         IN  /\ groups' = groups \cup {new_group}
             /\ groups_users' = NewGroupUsers(groups_users, creator_user, new_group)
             /\ groups_admins' = NewGroupAdmins(groups_admins, creator_user, new_group)
             /\ last' = Call("create_group", name, creating_user, NoUser, Ok,
                             GroupModel(users, groups_users', groups_admins', new_group))
             /\ UNCHANGED <<users, sess, taps>>

\* ---- GroupService.get_group_by_name
\* Names that differ from a group name only in case.
CaseFold(name) == IF name = "test group" THEN "Test Group" ELSE name
LookupNames == GroupNames \cup {"test group"}

\* (variant: the name is compared without regard to case)
get_group_by_name_ignore_case(name) ==
    LET found == {g \in groups : CaseFold(g.name) = CaseFold(name)} IN
    /\ last' = Call("get_group_by_name", name, NoUser, NoUser, Ok,
                    IF found # {}
                    THEN GroupModel(users, groups_users, groups_admins, First(found))
                    ELSE NoReturn)
    /\ UNCHANGED <<users, groups, groups_users, groups_admins, sess, taps>>

get_group_by_name(name) ==
    LET found == GroupsByName(groups, name) IN
    /\ last' = Call("get_group_by_name", name, NoUser, NoUser, Ok,
                    IF found # {}
                    THEN GroupModel(users, groups_users, groups_admins, First(found))
                    ELSE NoReturn)
    /\ UNCHANGED <<users, groups, groups_users, groups_admins, sess, taps>>

\* ---- GroupService.promote_to_admin
\* (variant: the new admin is looked up before the acting admin's rights)
PromoteErrorTargetFirst(U, G, GU, GA, name, admin_user, new_admin_user) ==
    IF GroupsByName(G, name) = {} THEN "GroupNotFound"
    ELSE IF UsersById(U, admin_user.id) = {} THEN "AdminNotFound"
    ELSE IF UsersById(U, new_admin_user.id) = {} THEN "NewAdminNotFound"
    ELSE IF First(UsersById(U, admin_user.id))
                \notin GroupAdmins(U, GA, First(GroupsByName(G, name)))
         THEN "NotAnAdmin"
    ELSE IF First(UsersById(U, new_admin_user.id))
                \notin GroupUsers(U, GU, First(GroupsByName(G, name)))
         THEN "NewAdminNotMember"
    ELSE Ok

\* (variant: the new admin need not be a member)
PromoteErrorNoMemberCheck(U, G, GU, GA, name, admin_user, new_admin_user) ==
    IF GroupsByName(G, name) = {} THEN "GroupNotFound"
    ELSE IF UsersById(U, admin_user.id) = {} THEN "AdminNotFound"
    ELSE IF First(UsersById(U, admin_user.id))
                \notin GroupAdmins(U, GA, First(GroupsByName(G, name)))
         THEN "NotAnAdmin"
    ELSE IF UsersById(U, new_admin_user.id) = {} THEN "NewAdminNotFound"
    ELSE Ok

\* (variant: the acting admin must also be a member of the group)
PromoteErrorAdminMustBeMember(U, G, GU, GA, name, admin_user, new_admin_user) ==
    IF GroupsByName(G, name) = {} THEN "GroupNotFound"
    ELSE IF UsersById(U, admin_user.id) = {} THEN "AdminNotFound"
    ELSE IF First(UsersById(U, admin_user.id))
                \notin GroupAdmins(U, GA, First(GroupsByName(G, name)))
                    \cap GroupUsers(U, GU, First(GroupsByName(G, name)))
         THEN "NotAnAdmin"
    ELSE IF UsersById(U, new_admin_user.id) = {} THEN "NewAdminNotFound"
    ELSE IF First(UsersById(U, new_admin_user.id))
                \notin GroupUsers(U, GU, First(GroupsByName(G, name)))
         THEN "NewAdminNotMember"
    ELSE Ok

PromoteError(U, G, GU, GA, name, admin_user, new_admin_user) ==
    IF GroupsByName(G, name) = {} THEN "GroupNotFound"
    ELSE IF UsersById(U, admin_user.id) = {} THEN "AdminNotFound"
    ELSE IF First(UsersById(U, admin_user.id))
                \notin GroupAdmins(U, GA, First(GroupsByName(G, name)))
         THEN "NotAnAdmin"
    ELSE IF UsersById(U, new_admin_user.id) = {} THEN "NewAdminNotFound"
    ELSE IF First(UsersById(U, new_admin_user.id))
                \notin GroupUsers(U, GU, First(GroupsByName(G, name)))
         THEN "NewAdminNotMember"
    ELSE Ok

\* (variant: the new admin is appended without looking at the admins, and
\* the association row of a repeated promotion is rejected by its primary key)
promote_to_admin_append(name, admin_user, new_admin_user) ==
    LET err == PromoteError(users, groups, groups_users, groups_admins,
                            name, admin_user, new_admin_user) IN
    IF err # Ok
    THEN /\ last' = Call("promote_to_admin", name, admin_user, new_admin_user,
                         err, NoReturn)
         /\ UNCHANGED <<users, groups, groups_users, groups_admins, sess, taps>>
    ELSE LET db_group == First(GroupsByName(groups, name))
             db_new_admin_user == First(UsersById(users, new_admin_user.id))
         IN  IF Link(db_new_admin_user, db_group) \in groups_admins
             THEN /\ last' = Call("promote_to_admin", name, admin_user, new_admin_user,
                                  "IntegrityError", NoReturn)
                  /\ UNCHANGED <<users, groups, groups_users, groups_admins, sess, taps>>
             ELSE /\ groups_admins' = groups_admins \cup {Link(db_new_admin_user, db_group)}
                  /\ last' = Call("promote_to_admin", name, admin_user, new_admin_user, Ok,
                                  GroupModel(users, groups_users, groups_admins', db_group))
                  /\ UNCHANGED <<users, groups, groups_users, sess, taps>>

\* (variant: the returned group is built before the new admin is stored)
promote_to_admin_stale(name, admin_user, new_admin_user) ==
    LET err == PromoteError(users, groups, groups_users, groups_admins,
                            name, admin_user, new_admin_user) IN
    IF err # Ok
    THEN /\ last' = Call("promote_to_admin", name, admin_user, new_admin_user,
                         err, NoReturn)
         /\ UNCHANGED <<users, groups, groups_users, groups_admins, sess, taps>>
    ELSE LET db_group == First(GroupsByName(groups, name))
             db_new_admin_user == First(UsersById(users, new_admin_user.id))
         IN  /\ groups_admins' =
                    IF db_new_admin_user \notin GroupAdmins(users, groups_admins, db_group)
                    THEN groups_admins \cup {Link(db_new_admin_user, db_group)}
                    ELSE groups_admins
             /\ last' = Call("promote_to_admin", name, admin_user, new_admin_user, Ok,
                             GroupModel(users, groups_users, groups_admins, db_group))
             /\ UNCHANGED <<users, groups, groups_users, sess, taps>>

\* (variant: a promotion hands the admin status over, the acting admin
\* gives it up)
promote_to_admin_transfer(name, admin_user, new_admin_user) ==
    LET err == PromoteError(users, groups, groups_users, groups_admins,
                            name, admin_user, new_admin_user) IN
    IF err # Ok
    THEN /\ last' = Call("promote_to_admin", name, admin_user, new_admin_user,
                         err, NoReturn)
         /\ UNCHANGED <<users, groups, groups_users, groups_admins, sess, taps>>
    ELSE LET db_group == First(GroupsByName(groups, name))
             db_admin_user == First(UsersById(users, admin_user.id))
             db_new_admin_user == First(UsersById(users, new_admin_user.id))
         IN  /\ groups_admins' =
                    (groups_admins \ {Link(db_admin_user, db_group)})
                        \cup {Link(db_new_admin_user, db_group)}
             /\ last' = Call("promote_to_admin", name, admin_user, new_admin_user, Ok,
                             GroupModel(users, groups_users, groups_admins', db_group))
             /\ UNCHANGED <<users, groups, groups_users, sess, taps>>

promote_to_admin(name, admin_user, new_admin_user) ==
    LET err == PromoteError(users, groups, groups_users, groups_admins,
                            name, admin_user, new_admin_user) IN
    IF err # Ok
    THEN /\ last' = Call("promote_to_admin", name, admin_user, new_admin_user,
                         err, NoReturn)
         /\ UNCHANGED <<users, groups, groups_users, groups_admins, sess, taps>>
    ELSE LET db_group == First(GroupsByName(groups, name))
             db_new_admin_user == First(UsersById(users, new_admin_user.id))
         IN  /\ groups_admins' =
                    IF db_new_admin_user \notin GroupAdmins(users, groups_admins, db_group)
                    THEN groups_admins \cup {Link(db_new_admin_user, db_group)}
                    ELSE groups_admins
             /\ last' = Call("promote_to_admin", name, admin_user, new_admin_user, Ok,
                             GroupModel(users, groups_users, groups_admins', db_group))
             /\ UNCHANGED <<users, groups, groups_users, sess, taps>>

\* ---- TelegramUserService.get_grouped_user
\* (variant: admin_of_groups is filled from the memberships)
get_grouped_user_members(telegram_id) ==
    LET found == UsersByTelegramId(users, telegram_id) IN
    /\ last' = Call("get_grouped_user", "",
                    [id |-> NoId, telegram_id |-> telegram_id], NoUser, Ok,
                    IF found # {}
                    THEN TelegramGroupedUser(groups, groups_users, groups_users,
                                             First(found))
                    ELSE NoReturn)
    /\ UNCHANGED <<users, groups, groups_users, groups_admins, sess, taps>>

\* TelegramGroupedUser.model_validate raises for a stored telegram id <= 0
get_grouped_user(telegram_id) ==
    LET found == UsersByTelegramId(users, telegram_id) IN
    /\ last' = Call("get_grouped_user", "",
                    [id |-> NoId, telegram_id |-> telegram_id], NoUser,
                    IF found # {} /\ ~ValidTelegramUser(First(found))
                    THEN "ValidationError" ELSE Ok,
                    IF found # {} /\ ValidTelegramUser(First(found))
                    THEN TelegramGroupedUser(groups, groups_users, groups_admins,
                                             First(found))
                    ELSE NoReturn)
    /\ UNCHANGED <<users, groups, groups_users, groups_admins, sess, taps>>

\* ---- TelegramUserService.assign_group / exit_from_group
\* (variant: the group is looked up before the user)
MemberErrorGroupFirst(U, G, name, user) ==
    IF GroupsByName(G, name) = {} THEN "GroupNotFound"
    ELSE IF UsersByTelegramId(U, user.telegram_id) = {} THEN "UserNotFound"
    ELSE Ok

MemberError(U, G, name, user) ==
    IF UsersByTelegramId(U, user.telegram_id) = {} THEN "UserNotFound"
    ELSE IF GroupsByName(G, name) = {} THEN "GroupNotFound"
    ELSE Ok

\* (variant: the group is appended without looking at the user's groups, and
\* the association row of a repeated assignment is rejected by its primary key)
assign_group_append(name, user) ==
    LET err == MemberError(users, groups, name, user) IN
    IF err # Ok
    THEN /\ last' = Call("assign_group", name, user, NoUser, err, NoReturn)
         /\ UNCHANGED <<users, groups, groups_users, groups_admins, sess, taps>>
    ELSE LET db_user == First(UsersByTelegramId(users, user.telegram_id))
             db_group == First(GroupsByName(groups, name))
         IN  IF Link(db_user, db_group) \in groups_users
             THEN /\ last' = Call("assign_group", name, user, NoUser,
                                  "IntegrityError", NoReturn)
                  /\ UNCHANGED <<users, groups, groups_users, groups_admins, sess, taps>>
             ELSE /\ groups_users' = groups_users \cup {Link(db_user, db_group)}
                  /\ last' = Call("assign_group", name, user, NoUser, Ok,
                                  TelegramGroupedUser(groups, groups_users', groups_admins,
                                                      db_user))
                  /\ UNCHANGED <<users, groups, groups_admins, sess, taps>>

\* (variant: only an admin of the group may be assigned to it)
assign_group_admins_only(name, user) ==
    LET err == MemberError(users, groups, name, user) IN
    IF err # Ok
    THEN /\ last' = Call("assign_group", name, user, NoUser, err, NoReturn)
         /\ UNCHANGED <<users, groups, groups_users, groups_admins, sess, taps>>
    ELSE LET db_user == First(UsersByTelegramId(users, user.telegram_id))
             db_group == First(GroupsByName(groups, name))
         IN  IF db_group \notin UserAdminOfGroups(groups, groups_admins, db_user)
             THEN /\ last' = Call("assign_group", name, user, NoUser,
                                  "NotAuthorized", NoReturn)
                  /\ UNCHANGED <<users, groups, groups_users, groups_admins, sess, taps>>
             ELSE /\ groups_users' = groups_users \cup {Link(db_user, db_group)}
                  /\ last' = Call("assign_group", name, user, NoUser, Ok,
                                  TelegramGroupedUser(groups, groups_users', groups_admins,
                                                      db_user))
                  /\ UNCHANGED <<users, groups, groups_admins, sess, taps>>

\* (variant: the user is looked up by its id, as the group service does)
assign_group_by_id(name, user) ==
    IF UsersById(users, user.id) = {}
    THEN /\ last' = Call("assign_group", name, user, NoUser, "UserNotFound", NoReturn)
         /\ UNCHANGED <<users, groups, groups_users, groups_admins, sess, taps>>
    ELSE IF GroupsByName(groups, name) = {}
    THEN /\ last' = Call("assign_group", name, user, NoUser, "GroupNotFound", NoReturn)
         /\ UNCHANGED <<users, groups, groups_users, groups_admins, sess, taps>>
    ELSE LET db_user == First(UsersById(users, user.id))
             db_group == First(GroupsByName(groups, name))
         IN  /\ groups_users' = groups_users \cup {Link(db_user, db_group)}
             /\ last' = Call("assign_group", name, user, NoUser, Ok,
                             TelegramGroupedUser(groups, groups_users', groups_admins,
                                                 db_user))
             /\ UNCHANGED <<users, groups, groups_admins, sess, taps>>

assign_group(name, user) ==
    LET err == MemberError(users, groups, name, user) IN
    IF err # Ok
    THEN /\ last' = Call("assign_group", name, user, NoUser, err, NoReturn)
         /\ UNCHANGED <<users, groups, groups_users, groups_admins, sess, taps>>
    ELSE LET db_user == First(UsersByTelegramId(users, user.telegram_id))
             db_group == First(GroupsByName(groups, name))
         IN  /\ groups_users' =
                    IF db_group \notin UserGroups(groups, groups_users, db_user)
                    THEN groups_users \cup {Link(db_user, db_group)}
                    ELSE groups_users
             /\ last' = Call("assign_group", name, user, NoUser, Ok,
                             TelegramGroupedUser(groups, groups_users', groups_admins,
                                                 db_user))
             /\ UNCHANGED <<users, groups, groups_admins, sess, taps>>

\* (variant: list.remove without the membership test raises for a user that
\* is not a member)
exit_from_group_strict(name, user) ==
    LET err == MemberError(users, groups, name, user) IN
    IF err # Ok
    THEN /\ last' = Call("exit_from_group", name, user, NoUser, err, NoReturn)
         /\ UNCHANGED <<users, groups, groups_users, groups_admins, sess, taps>>
    ELSE LET db_user == First(UsersByTelegramId(users, user.telegram_id))
             db_group == First(GroupsByName(groups, name))
         IN  IF Link(db_user, db_group) \notin groups_users
             THEN /\ last' = Call("exit_from_group", name, user, NoUser,
                                  "NotInList", NoReturn)
                  /\ UNCHANGED <<users, groups, groups_users, groups_admins, sess, taps>>
             ELSE /\ groups_users' = groups_users \ {Link(db_user, db_group)}
                  /\ last' = Call("exit_from_group", name, user, NoUser, Ok,
                                  TelegramGroupedUser(groups, groups_users', groups_admins,
                                                      db_user))
                  /\ UNCHANGED <<users, groups, groups_admins, sess, taps>>

\* (variant: a leaving user also gives up the admin status in the group)
exit_from_group_drop_admin(name, user) ==
    LET err == MemberError(users, groups, name, user) IN
    IF err # Ok
    THEN /\ last' = Call("exit_from_group", name, user, NoUser, err, NoReturn)
         /\ UNCHANGED <<users, groups, groups_users, groups_admins, sess, taps>>
    ELSE LET db_user == First(UsersByTelegramId(users, user.telegram_id))
             db_group == First(GroupsByName(groups, name))
         IN  /\ groups_users' = groups_users \ {Link(db_user, db_group)}
             /\ groups_admins' = groups_admins \ {Link(db_user, db_group)}
             /\ last' = Call("exit_from_group", name, user, NoUser, Ok,
                             TelegramGroupedUser(groups, groups_users', groups_admins',
                                                 db_user))
             /\ UNCHANGED <<users, groups, sess, taps>>

exit_from_group(name, user) ==
    LET err == MemberError(users, groups, name, user) IN
    IF err # Ok
    THEN /\ last' = Call("exit_from_group", name, user, NoUser, err, NoReturn)
         /\ UNCHANGED <<users, groups, groups_users, groups_admins, sess, taps>>
    ELSE LET db_user == First(UsersByTelegramId(users, user.telegram_id))
             db_group == First(GroupsByName(groups, name))
         IN  /\ groups_users' =
                    IF db_group \in UserGroups(groups, groups_users, db_user)
                    THEN groups_users \ {Link(db_user, db_group)}
                    ELSE groups_users
             /\ last' = Call("exit_from_group", name, user, NoUser, Ok,
                             TelegramGroupedUser(groups, groups_users', groups_admins,
                                                 db_user))
             /\ UNCHANGED <<users, groups, groups_admins, sess, taps>>

\* ---- TelegramUserService.kick_from_group
\* (variant: the kicker's admin rights are checked before the memberships)
KickErrorAdminFirst(U, G, GU, GA, name, kicking_user, target_user) ==
    IF UsersByTelegramId(U, kicking_user.telegram_id) = {} THEN "KickerNotFound"
    ELSE IF UsersByTelegramId(U, target_user.telegram_id) = {} THEN "TargetNotFound"
    ELSE IF First(UsersByTelegramId(U, kicking_user.telegram_id)).telegram_id
              = First(UsersByTelegramId(U, target_user.telegram_id)).telegram_id
         THEN "SelfKick"
    ELSE IF GroupsByName(G, name) = {} THEN "GroupNotFound"
    ELSE LET kicking_user_db == First(UsersByTelegramId(U, kicking_user.telegram_id))
             target_user_db == First(UsersByTelegramId(U, target_user.telegram_id))
             group_db == First(GroupsByName(G, name))
         IN  IF group_db \notin UserAdminOfGroups(G, GA, kicking_user_db)
                  THEN "KickerNotAdmin"
             ELSE IF group_db \notin UserGroups(G, GU, kicking_user_db) THEN "KickerNotMember"
             ELSE IF group_db \notin UserGroups(G, GU, target_user_db) THEN "TargetNotMember"
             ELSE IF group_db \in UserAdminOfGroups(G, GA, target_user_db)
                  THEN "TargetIsAdmin"
             ELSE Ok

\* (variant: the kicker need not be an admin of the group)
KickErrorNoAdminCheck(U, G, GU, GA, name, kicking_user, target_user) ==
    IF UsersByTelegramId(U, kicking_user.telegram_id) = {} THEN "KickerNotFound"
    ELSE IF UsersByTelegramId(U, target_user.telegram_id) = {} THEN "TargetNotFound"
    ELSE IF First(UsersByTelegramId(U, kicking_user.telegram_id)).telegram_id
              = First(UsersByTelegramId(U, target_user.telegram_id)).telegram_id
         THEN "SelfKick"
    ELSE IF GroupsByName(G, name) = {} THEN "GroupNotFound"
    ELSE LET kicking_user_db == First(UsersByTelegramId(U, kicking_user.telegram_id))
             target_user_db == First(UsersByTelegramId(U, target_user.telegram_id))
             group_db == First(GroupsByName(G, name))
         IN  IF group_db \notin UserGroups(G, GU, kicking_user_db) THEN "KickerNotMember"
             ELSE IF group_db \notin UserGroups(G, GU, target_user_db) THEN "TargetNotMember"
             ELSE IF group_db \in UserAdminOfGroups(G, GA, target_user_db)
                  THEN "TargetIsAdmin"
             ELSE Ok

\* (variant: the kicker need not be a member of the group)
KickErrorNoKickerMemberCheck(U, G, GU, GA, name, kicking_user, target_user) ==
    IF UsersByTelegramId(U, kicking_user.telegram_id) = {} THEN "KickerNotFound"
    ELSE IF UsersByTelegramId(U, target_user.telegram_id) = {} THEN "TargetNotFound"
    ELSE IF First(UsersByTelegramId(U, kicking_user.telegram_id)).telegram_id
              = First(UsersByTelegramId(U, target_user.telegram_id)).telegram_id
         THEN "SelfKick"
    ELSE IF GroupsByName(G, name) = {} THEN "GroupNotFound"
    ELSE LET kicking_user_db == First(UsersByTelegramId(U, kicking_user.telegram_id))
             target_user_db == First(UsersByTelegramId(U, target_user.telegram_id))
             group_db == First(GroupsByName(G, name))
         IN  IF group_db \notin UserGroups(G, GU, target_user_db) THEN "TargetNotMember"
             ELSE IF group_db \notin UserAdminOfGroups(G, GA, kicking_user_db)
                  THEN "KickerNotAdmin"
             ELSE IF group_db \in UserAdminOfGroups(G, GA, target_user_db)
                  THEN "TargetIsAdmin"
             ELSE Ok

\* (variant: an admin of the group can be kicked)
KickErrorNoTargetAdminCheck(U, G, GU, GA, name, kicking_user, target_user) ==
    IF UsersByTelegramId(U, kicking_user.telegram_id) = {} THEN "KickerNotFound"
    ELSE IF UsersByTelegramId(U, target_user.telegram_id) = {} THEN "TargetNotFound"
    ELSE IF First(UsersByTelegramId(U, kicking_user.telegram_id)).telegram_id
              = First(UsersByTelegramId(U, target_user.telegram_id)).telegram_id
         THEN "SelfKick"
    ELSE IF GroupsByName(G, name) = {} THEN "GroupNotFound"
    ELSE LET kicking_user_db == First(UsersByTelegramId(U, kicking_user.telegram_id))
             target_user_db == First(UsersByTelegramId(U, target_user.telegram_id))
             group_db == First(GroupsByName(G, name))
         IN  IF group_db \notin UserGroups(G, GU, kicking_user_db) THEN "KickerNotMember"
             ELSE IF group_db \notin UserGroups(G, GU, target_user_db) THEN "TargetNotMember"
             ELSE IF group_db \notin UserAdminOfGroups(G, GA, kicking_user_db)
                  THEN "KickerNotAdmin"
             ELSE Ok

KickError(U, G, GU, GA, name, kicking_user, target_user) ==
    IF UsersByTelegramId(U, kicking_user.telegram_id) = {} THEN "KickerNotFound"
    ELSE IF UsersByTelegramId(U, target_user.telegram_id) = {} THEN "TargetNotFound"
    ELSE IF First(UsersByTelegramId(U, kicking_user.telegram_id)).telegram_id
              = First(UsersByTelegramId(U, target_user.telegram_id)).telegram_id
         THEN "SelfKick"
    ELSE IF GroupsByName(G, name) = {} THEN "GroupNotFound"
    ELSE LET kicking_user_db == First(UsersByTelegramId(U, kicking_user.telegram_id))
             target_user_db == First(UsersByTelegramId(U, target_user.telegram_id))
             group_db == First(GroupsByName(G, name))
         IN  IF group_db \notin UserGroups(G, GU, kicking_user_db) THEN "KickerNotMember"
             ELSE IF group_db \notin UserGroups(G, GU, target_user_db) THEN "TargetNotMember"
             ELSE IF group_db \notin UserAdminOfGroups(G, GA, kicking_user_db)
                  THEN "KickerNotAdmin"
             ELSE IF group_db \in UserAdminOfGroups(G, GA, target_user_db)
                  THEN "TargetIsAdmin"
             ELSE Ok

\* (variant: the target is removed before the target's admin status is checked)
kick_from_group_remove_first(name, kicking_user, target_user) ==
    LET err == KickError(users, groups, groups_users, groups_admins,
                         name, kicking_user, target_user) IN
    IF err \notin {Ok, "TargetIsAdmin"}
    THEN /\ last' = Call("kick_from_group", name, kicking_user, target_user,
                         err, NoReturn)
         /\ UNCHANGED <<users, groups, groups_users, groups_admins, sess, taps>>
    ELSE LET target_user_db == First(UsersByTelegramId(users, target_user.telegram_id))
             group_db == First(GroupsByName(groups, name))
         IN  /\ groups_users' = groups_users \ {Link(target_user_db, group_db)}
             /\ last' = Call("kick_from_group", name, kicking_user, target_user, err,
                             IF err = Ok
                             THEN TelegramGroupedUser(groups, groups_users',
                                                      groups_admins, target_user_db)
                             ELSE NoReturn)
             /\ UNCHANGED <<users, groups, groups_admins, sess, taps>>

\* (variant: the returned user is the kicking user)
kick_from_group_return_kicker(name, kicking_user, target_user) ==
    LET err == KickError(users, groups, groups_users, groups_admins,
                         name, kicking_user, target_user) IN
    IF err # Ok
    THEN /\ last' = Call("kick_from_group", name, kicking_user, target_user,
                         err, NoReturn)
         /\ UNCHANGED <<users, groups, groups_users, groups_admins, sess, taps>>
    ELSE LET kicking_user_db == First(UsersByTelegramId(users, kicking_user.telegram_id))
             target_user_db == First(UsersByTelegramId(users, target_user.telegram_id))
             group_db == First(GroupsByName(groups, name))
         IN  /\ groups_users' = groups_users \ {Link(target_user_db, group_db)}
             /\ last' = Call("kick_from_group", name, kicking_user, target_user, Ok,
                             TelegramGroupedUser(groups, groups_users', groups_admins,
                                                 kicking_user_db))
             /\ UNCHANGED <<users, groups, groups_admins, sess, taps>>

kick_from_group(name, kicking_user, target_user) ==
    LET err == KickError(users, groups, groups_users, groups_admins,
                         name, kicking_user, target_user) IN
    IF err # Ok
    THEN /\ last' = Call("kick_from_group", name, kicking_user, target_user,
                         err, NoReturn)
         /\ UNCHANGED <<users, groups, groups_users, groups_admins, sess, taps>>
    ELSE LET target_user_db == First(UsersByTelegramId(users, target_user.telegram_id))
             group_db == First(GroupsByName(groups, name))
         IN  /\ groups_users' = groups_users \ {Link(target_user_db, group_db)}
             /\ last' = Call("kick_from_group", name, kicking_user, target_user, Ok,
                             TelegramGroupedUser(groups, groups_users', groups_admins,
                                                 target_user_db))
             /\ UNCHANGED <<users, groups, groups_admins, sess, taps>>

\* ------------------------------------------------------------------- Spec
\* The calls of a caller that knows the telegram ids T and the group names N.
CreateUser(T) ==
    \E t \in T : InOrder(T, t) /\ create_user(UserCreate(t, DefaultUsername, 1))
CreateGroup(T, N) ==
    \E n \in N, u \in UserValues(T) : NamedInOrder(n) /\ create_group(n, u)
GetGroupByName(N) == \E n \in N : get_group_by_name(n)
PromoteToAdmin(T, N) ==
    \E n \in N, a \in UserValues(T), t \in UserValues(T) : promote_to_admin(n, a, t)
GetGroupedUser(T) == \E t \in T : get_grouped_user(t)
AssignGroup(T, N) == \E n \in N, u \in UserValues(T) : assign_group(n, u)
ExitFromGroup(T, N) == \E n \in N, u \in UserValues(T) : exit_from_group(n, u)
KickFromGroup(T, N) ==
    \E n \in N, k \in UserValues(T), t \in UserValues(T) : kick_from_group(n, k, t)

Next ==
    \/ CreateUser(TelegramIds)
    \/ CreateGroup(TelegramIds, OneGroupName)
    \/ GetGroupByName(OneGroupName)
    \/ PromoteToAdmin(TelegramIds, OneGroupName)
    \/ GetGroupedUser(TelegramIds)
    \/ AssignGroup(TelegramIds, OneGroupName)
    \/ ExitFromGroup(TelegramIds, OneGroupName)
    \/ KickFromGroup(TelegramIds, OneGroupName)

Spec == Init /\ [][Next]_vars

\* ------------------------------------------------------------- SpecGroups
NextGroups ==
    \/ CreateUser(TwoTelegramIds)
    \/ CreateGroup(TwoTelegramIds, GroupNames)
    \/ GetGroupByName(LookupNames)
    \/ PromoteToAdmin(TwoTelegramIds, GroupNames)
    \/ GetGroupedUser(TwoTelegramIds)
    \/ AssignGroup(TwoTelegramIds, GroupNames)
    \/ ExitFromGroup(TwoTelegramIds, GroupNames)
    \/ KickFromGroup(TwoTelegramIds, GroupNames)

SpecGroups == Init /\ [][NextGroups]_vars

\* --------------------------------------------------------------- SpecUser
\* create_user with every username and chat id, and a telegram id of 0.
CreateUserRich ==
    \E tuc \in RichUserCreates :
        InOrder(TelegramIds, tuc.telegram_id) /\ create_user(tuc)
GetGroupedUserRich == \E t \in {0} \cup TelegramIds : get_grouped_user(t)

\* TelegramUserCreate(telegram_id=..., telegram_username=..., telegram_chat_id=...)
\* followed by create_user: the model requires telegram_username to be a str,
\* so the construction raises for None and create_user is not called.
ValidTelegramUserCreate(tuc) == tuc.telegram_username # NoName

create_user_request(tuc) ==
    IF ~ValidTelegramUserCreate(tuc)
    THEN /\ last' = [UserCall(tuc, "ValidationError", NoReturn)
                        EXCEPT !.op = "TelegramUserCreate"]
         /\ UNCHANGED <<users, groups, groups_users, groups_admins, sess, taps>>
    ELSE create_user(tuc)

CreateUserNoName ==
    \E t \in {0} \cup TelegramIds, c \in ChatIds :
        InOrder(TelegramIds, t) /\ create_user_request(UserCreate(t, NoName, c))

NextUser ==
    \/ CreateUserRich
    \/ GetGroupedUserRich
    \/ CreateUserNoName

SpecUser == Init /\ [][NextUser]_vars

\* ------------------------------------------------------------- SpecUpsert
\* create_user with every username and chat id for two users that are also
\* creators, members and admins of a group.
UpsertUserCreates ==
    {UserCreate(t, n, c) : t \in TwoTelegramIds, n \in Usernames, c \in ChatIds}

CreateUserVaried ==
    \E tuc \in UpsertUserCreates :
        InOrder(TwoTelegramIds, tuc.telegram_id) /\ create_user(tuc)

NextUpsert ==
    \/ CreateUserVaried
    \/ CreateGroup(TwoTelegramIds, OneGroupName)
    \/ AssignGroup(TwoTelegramIds, OneGroupName)
    \/ PromoteToAdmin(TwoTelegramIds, OneGroupName)

SpecUpsert == Init /\ [][NextUpsert]_vars

\* --------------------------------------------------------------- SpecKeys
\* The calls of a caller that builds the user values itself: TelegramUser
\* has an optional id and a telegram id, and nothing ties the two to one
\* stored row.
KeyUserValues ==
    {[id |-> i, telegram_id |-> t] : i \in {NoId, 1, 2}, t \in TwoTelegramIds}

CreateGroupKeys ==
    \E n \in OneGroupName, u \in KeyUserValues : create_group(n, u)
PromoteToAdminKeys ==
    \E n \in OneGroupName, a \in KeyUserValues, t \in KeyUserValues :
        promote_to_admin(n, a, t)
AssignGroupKeys ==
    \E n \in OneGroupName, u \in KeyUserValues : assign_group(n, u)
ExitFromGroupKeys ==
    \E n \in OneGroupName, u \in KeyUserValues : exit_from_group(n, u)
KickFromGroupKeys ==
    \E n \in OneGroupName, k \in KeyUserValues, t \in KeyUserValues :
        kick_from_group(n, k, t)

NextKeys ==
    \/ CreateUser(TwoTelegramIds)
    \/ CreateGroupKeys
    \/ PromoteToAdminKeys
    \/ AssignGroupKeys
    \/ ExitFromGroupKeys
    \/ KickFromGroupKeys

SpecKeys == Init /\ [][NextKeys]_vars

\* -------------------------------------------------------------- SpecStart
\* The /start handler of the bot.  An update carries the telegram id and the
\* username of the sender (NoName: the sender has none) and the chat id.

\* valid_update: effective_user, message, username and chat are present
valid_update(update) == update.telegram_username # NoName

\* session: what became of the Session of get_session when the handler ended:
\* "none" (not obtained), "closed" (session.close() ran) or "open"
StartCall(update, err, reply, session) ==
    [op |-> "start", group |-> "", actor |-> NoUser, target |-> NoUser,
     tuc |-> update, err |-> err, ret |-> NoReturn, reply |-> reply,
     session |-> session]

\* (variant: the user is looked up after create_user)
start_lookup_last(update) ==
    IF ~valid_update(update)
    THEN /\ last' = StartCall(update, "InvalidUpdate", "", "none")
         /\ UNCHANGED <<users, groups, groups_users, groups_admins, sess, taps>>
    ELSE LET found == UsersByTelegramId(users, update.telegram_id)
             row == CreateUserRow(users, update)
             potential_user == UsersByTelegramId((users \ found) \cup {row},
                                                 update.telegram_id)
         IN  /\ users' = (users \ found) \cup {row}
             /\ last' =
                    IF ~ValidTelegramUser(row)
                    THEN StartCall(update, "ValidationError", "", "open")
                    ELSE IF potential_user = {}
                    THEN StartCall(update, Ok,
                            "Hello, welcome new user @" \o row.telegram_username \o "!",
                                "closed")
                    ELSE StartCall(update, Ok,
                            "Hello, welcome back @" \o row.telegram_username \o "!",
                                "closed")
             /\ UNCHANGED <<groups, groups_users, groups_admins, sess, taps>>

\* start: get_grouped_user, then create_user, then the reply
start(update) ==
    IF ~valid_update(update)
    THEN /\ last' = StartCall(update, "InvalidUpdate", "", "none")
         /\ UNCHANGED <<users, groups, groups_users, groups_admins, sess, taps>>
    ELSE LET potential_user == UsersByTelegramId(users, update.telegram_id)
             row == CreateUserRow(users, update)
         IN  IF potential_user # {} /\ ~ValidTelegramUser(First(potential_user))
             THEN /\ last' = StartCall(update, "ValidationError", "", "open")
                  /\ UNCHANGED <<users, groups, groups_users, groups_admins, sess, taps>>
             ELSE /\ users' = (users \ potential_user) \cup {row}
                  /\ last' =
                        IF ~ValidTelegramUser(row)
                        THEN StartCall(update, "ValidationError", "", "open")
                        ELSE IF potential_user = {}
                        THEN StartCall(update, Ok,
                                "Hello, welcome new user @" \o row.telegram_username \o "!",
                                "closed")
                        ELSE StartCall(update, Ok,
                                "Hello, welcome back @" \o row.telegram_username \o "!",
                                "closed")
                  /\ UNCHANGED <<groups, groups_users, groups_admins, sess, taps>>

Start ==
    \E t \in TelegramIds, n \in Usernames \cup {NoName}, c \in ChatIds :
        InOrder(TelegramIds, t) /\ start(UserCreate(t, n, c))

NextStart ==
    \/ Start

SpecStart == Init /\ [][NextStart]_vars

\* ----------------------------------------------------------- SpecStartErr
\* The /start handler over a storage that can fail: the query of
\* get_grouped_user ("lookup") or the commit of create_user ("upsert") raises
\* an OperationalError.  Nothing is written, the exception leaves the handler
\* before session.close() is reached.
StorageFailures == {"lookup", "upsert"}

start_storage_error(update, at) ==
    /\ valid_update(update)
    /\ at \in StorageFailures
    /\ at = "upsert" =>
          \A u \in UsersByTelegramId(users, update.telegram_id) : ValidTelegramUser(u)
    /\ last' = StartCall(update, "OperationalError", "", "open")
    /\ UNCHANGED <<users, groups, groups_users, groups_admins, sess, taps>>

StartStorageError ==
    \E t \in TelegramIds, n \in Usernames, c \in ChatIds, at \in StorageFailures :
        start_storage_error(UserCreate(t, n, c), at)

NextStartErr ==
    \/ Start
    \/ StartStorageError

SpecStartErr == Init /\ [][NextStartErr]_vars

\* ===================================================== concurrent sessions
\* Each session runs one call at a time in its own transaction.  A query
\* reads the committed tables at the moment it runs (read committed); the
\* INSERT/UPDATE statements of a call are flushed by its commit(), so the
\* flush and the commit are one step.  The unique constraints of the schema
\* reject the flush when a committed row already holds the key.

Idle == [pc |-> "idle"]

\* (variant: no unique constraint on users.telegram_id)
TelegramIdTakenNever(U, tid) == FALSE

\* users.telegram_id is unique
TelegramIdTaken(U, tid) == UsersByTelegramId(U, tid) # {}

\* (variant: no unique constraint on groups.name)
GroupNameTakenNever(G, name) == FALSE

\* groups.name is unique
GroupNameTaken(G, name) == GroupsByName(G, name) # {}

Done(s, err, ret) ==
    [sess[s] EXCEPT !.pc = "done", !.err = err, !.ret = ret]

\* ---- create_user, query by query
\* lines 45-49 and, for an unchanged username, the return of line 62
cu_query(s, tuc) ==
    /\ sess[s].pc = "idle"
    /\ LET found == UsersByTelegramId(users, tuc.telegram_id)
           begun == [pc |-> "cu_query", op |-> "create_user", tuc |-> tuc,
                     name |-> "", user |-> NoUser, found |-> found,
                     err |-> Ok, ret |-> NoReturn]
       IN  sess' = [sess EXCEPT ![s] =
                IF found = {} THEN [begun EXCEPT !.pc = "cu_insert"]
                ELSE IF First(found).telegram_username # tuc.telegram_username
                     THEN [begun EXCEPT !.pc = "cu_update"]
                ELSE IF ValidTelegramUser(First(found))
                     THEN [begun EXCEPT !.pc = "done", !.ret = TelegramUser(First(found))]
                ELSE [begun EXCEPT !.pc = "done", !.err = "ValidationError"]]
    /\ UNCHANGED <<users, groups, groups_users, groups_admins, last, taps>>

\* (variant: the user is replaced by a new row with the new username)
cu_update_reinsert(s) ==
    /\ sess[s].pc = "cu_update"
    /\ LET db_user == First(sess[s].found)
           stored == First(UsersById(users, db_user.id))
           row == [stored EXCEPT !.telegram_username = sess[s].tuc.telegram_username,
                                 !.id = NextId(users)]
       IN  /\ users' = (users \ {stored}) \cup {row}
           /\ sess' = [sess EXCEPT ![s] =
                    IF ValidTelegramUser(row)
                    THEN Done(s, Ok, TelegramUser(row))
                    ELSE Done(s, "ValidationError", NoReturn)]
    /\ UNCHANGED <<groups, groups_users, groups_admins, last, taps>>

\* lines 53-62: UPDATE of the loaded row, commit, refresh
cu_update(s) ==
    /\ sess[s].pc = "cu_update"
    /\ LET db_user == First(sess[s].found)
           stored == First(UsersById(users, db_user.id))
           row == [stored EXCEPT !.telegram_username = sess[s].tuc.telegram_username]
       IN  /\ users' = (users \ {stored}) \cup {row}
           /\ sess' = [sess EXCEPT ![s] =
                    IF ValidTelegramUser(row)
                    THEN Done(s, Ok, TelegramUser(row))
                    ELSE Done(s, "ValidationError", NoReturn)]
    /\ UNCHANGED <<groups, groups_users, groups_admins, last, taps>>

\* lines 64-68: INSERT, commit, refresh
cu_insert(s) ==
    /\ sess[s].pc = "cu_insert"
    /\ LET tuc == sess[s].tuc
           new_user == [id |-> NextId(users), telegram_id |-> tuc.telegram_id,
                        telegram_username |-> tuc.telegram_username,
                        telegram_chat_id |-> tuc.telegram_chat_id]
       IN  IF TelegramIdTaken(users, tuc.telegram_id)
           THEN /\ sess' = [sess EXCEPT ![s] = Done(s, "IntegrityError", NoReturn)]
                /\ UNCHANGED users
           ELSE /\ users' = users \cup {new_user}
                /\ sess' = [sess EXCEPT ![s] =
                         IF ValidTelegramUser(new_user)
                         THEN Done(s, Ok, TelegramUser(new_user))
                         ELSE Done(s, "ValidationError", NoReturn)]
    /\ UNCHANGED <<groups, groups_users, groups_admins, last, taps>>

\* ---- create_group, query by query
\* lines 44-45
cg_query_group(s, name, creating_user) ==
    /\ sess[s].pc = "idle"
    /\ LET begun == [pc |-> "cg_query_user", op |-> "create_group",
                     tuc |-> NoCreate, name |-> name,
                     user |-> creating_user, found |-> {},
                     err |-> Ok, ret |-> NoReturn]
       IN  sess' = [sess EXCEPT ![s] =
                IF GroupsByName(groups, name) # {}
                THEN [begun EXCEPT !.pc = "done", !.err = "GroupAlreadyExists"]
                ELSE begun]
    /\ UNCHANGED <<users, groups, groups_users, groups_admins, last, taps>>

\* lines 47-51
cg_query_user(s) ==
    /\ sess[s].pc = "cg_query_user"
    /\ LET found == UsersById(users, sess[s].user.id) IN
       sess' = [sess EXCEPT ![s] =
                IF found = {}
                THEN Done(s, "CreatorNotFound", NoReturn)
                ELSE [sess[s] EXCEPT !.pc = "cg_commit", !.found = found]]
    /\ UNCHANGED <<users, groups, groups_users, groups_admins, last, taps>>

\* lines 53-61: INSERT of the group and of both association rows, commit
cg_commit(s) ==
    /\ sess[s].pc = "cg_commit"
    /\ LET creator_user == First(sess[s].found)
           new_group == [id |-> NextId(groups), name |-> sess[s].name]
       IN  IF GroupNameTaken(groups, sess[s].name)
           THEN /\ sess' = [sess EXCEPT ![s] = Done(s, "IntegrityError", NoReturn)]
                /\ UNCHANGED <<groups, groups_users, groups_admins>>
           ELSE /\ groups' = groups \cup {new_group}
                /\ groups_users' = NewGroupUsers(groups_users, creator_user, new_group)
                /\ groups_admins' = NewGroupAdmins(groups_admins, creator_user, new_group)
                /\ sess' = [sess EXCEPT ![s] =
                         Done(s, Ok, GroupModel(users, groups_users', groups_admins',
                                                new_group))]
    /\ UNCHANGED <<users, last, taps>>

\* the call has returned or raised; the session is closed and a new one opened
finish(s) ==
    /\ sess[s].pc = "done"
    /\ sess' = [sess EXCEPT ![s] = Idle]
    /\ UNCHANGED <<users, groups, groups_users, groups_admins, last, taps>>

CuQuery == \E s \in Sessions, tuc \in ConcUserCreates : cu_query(s, tuc)
CuUpdate == \E s \in Sessions : cu_update(s)
CuInsert == \E s \in Sessions : cu_insert(s)
CgQueryGroup == \E s \in Sessions, n \in OneGroupName, u \in ConcUserValues :
                    cg_query_group(s, n, u)
CgQueryUser == \E s \in Sessions : cg_query_user(s)
CgCommit == \E s \in Sessions : cg_commit(s)
Finish == \E s \in Sessions : finish(s)

NextConc ==
    \/ CuQuery
    \/ CuUpdate
    \/ CuInsert
    \/ CgQueryGroup
    \/ CgQueryUser
    \/ CgCommit
    \/ Finish

SpecConc == Init /\ [][NextConc]_vars

\* =============================================== concurrent membership calls
\* kick_from_group, promote_to_admin and assign_group of several sessions,
\* each in its own transaction: the checks of a call read the committed
\* tables, its write is flushed by its commit() in a later step.  The
\* association tables have the primary key (user_id, group_id): an INSERT of a
\* stored pair is rejected, and a DELETE that matches no row makes the flush
\* raise StaleDataError where the driver reports row counts.
\*
\* The sessions start from the state after three create_user calls,
\* create_group("Test Group") by the first user and assign_group of the
\* second: the first user is member and admin, the second is a member, the
\* third is neither.
RaceUser(i) ==
    [id |-> i, telegram_id |-> 10 * i, telegram_username |-> DefaultUsername,
     telegram_chat_id |-> 1]
RaceGroup == [id |-> 1, name |-> AllGroupNames[1]]
RaceAdmin == [id |-> 1, telegram_id |-> 10]
RaceTargets == {[id |-> i, telegram_id |-> 10 * i] : i \in {2, 3}}

InitRace ==
    /\ users = {RaceUser(i) : i \in {1, 2, 3}}
    /\ groups = {RaceGroup}
    /\ groups_users = {Link(RaceUser(1), RaceGroup), Link(RaceUser(2), RaceGroup)}
    /\ groups_admins = {Link(RaceUser(1), RaceGroup)}
    /\ last = Call("init", "", NoUser, NoUser, Ok, NoReturn)
    /\ sess = [s \in Sessions |-> [pc |-> "idle"]]
    /\ taps = {}

Begun(pc, op, name, user, target, err) ==
    [pc |-> pc, op |-> op, name |-> name, user |-> user, target |-> target,
     err |-> err, ret |-> NoReturn]

\* ---- kick_from_group: lines 188-217, then lines 219-222
kick_check(s, name, kicking_user, target_user) ==
    /\ sess[s].pc = "idle"
    /\ LET err == KickError(users, groups, groups_users, groups_admins,
                            name, kicking_user, target_user)
       IN  sess' = [sess EXCEPT ![s] =
                Begun(IF err = Ok THEN "kick_commit" ELSE "done",
                      "kick_from_group", name, kicking_user, target_user, err)]
    /\ UNCHANGED <<users, groups, groups_users, groups_admins, last, taps>>

kick_commit(s) ==
    /\ sess[s].pc = "kick_commit"
    /\ LET target_user_db == First(UsersByTelegramId(users, sess[s].target.telegram_id))
           group_db == First(GroupsByName(groups, sess[s].name))
           row == Link(target_user_db, group_db)
           returned == Done(s, Ok, TelegramGroupedUser(groups, groups_users \ {row},
                                                      groups_admins, target_user_db))
       IN  IF row \in groups_users
           THEN /\ groups_users' = groups_users \ {row}
                /\ sess' = [sess EXCEPT ![s] = returned]
           ELSE /\ groups_users' = groups_users
                /\ \E raised \in BOOLEAN :
                    sess' = [sess EXCEPT ![s] =
                        IF raised THEN Done(s, "StaleDataError", NoReturn)
                        ELSE returned]
    /\ UNCHANGED <<users, groups, groups_admins, last, taps>>

\* ---- promote_to_admin: lines 114-140, then lines 141-145
promote_check(s, name, admin_user, new_admin_user) ==
    /\ sess[s].pc = "idle"
    /\ LET err == PromoteError(users, groups, groups_users, groups_admins,
                               name, admin_user, new_admin_user)
           begun == Begun("done", "promote_to_admin", name, admin_user,
                          new_admin_user, err)
       IN  sess' = [sess EXCEPT ![s] =
                IF err # Ok THEN begun
                ELSE IF First(UsersById(users, new_admin_user.id))
                            \in GroupAdmins(users, groups_admins,
                                            First(GroupsByName(groups, name)))
                     THEN [begun EXCEPT !.ret =
                            GroupModel(users, groups_users, groups_admins,
                                       First(GroupsByName(groups, name)))]
                ELSE [begun EXCEPT !.pc = "promote_commit"]]
    /\ UNCHANGED <<users, groups, groups_users, groups_admins, last, taps>>

promote_commit(s) ==
    /\ sess[s].pc = "promote_commit"
    /\ LET db_new_admin_user == First(UsersById(users, sess[s].target.id))
           db_group == First(GroupsByName(groups, sess[s].name))
           row == Link(db_new_admin_user, db_group)
       IN  IF row \in groups_admins
           THEN /\ groups_admins' = groups_admins
                /\ sess' = [sess EXCEPT ![s] = Done(s, "IntegrityError", NoReturn)]
           ELSE /\ groups_admins' = groups_admins \cup {row}
                /\ sess' = [sess EXCEPT ![s] =
                        Done(s, Ok, GroupModel(users, groups_users, groups_admins',
                                               db_group))]
    /\ UNCHANGED <<users, groups, groups_users, last, taps>>

\* ---- assign_group: lines 108-116, then lines 117-120
assign_check(s, name, user) ==
    /\ sess[s].pc = "idle"
    /\ LET err == MemberError(users, groups, name, user)
           begun == Begun("done", "assign_group", name, user, NoUser, err)
       IN  sess' = [sess EXCEPT ![s] =
                IF err # Ok THEN begun
                ELSE IF First(GroupsByName(groups, name))
                            \in UserGroups(groups, groups_users,
                                           First(UsersByTelegramId(users, user.telegram_id)))
                     THEN [begun EXCEPT !.ret =
                            TelegramGroupedUser(groups, groups_users, groups_admins,
                                First(UsersByTelegramId(users, user.telegram_id)))]
                ELSE [begun EXCEPT !.pc = "assign_commit"]]
    /\ UNCHANGED <<users, groups, groups_users, groups_admins, last, taps>>

assign_commit(s) ==
    /\ sess[s].pc = "assign_commit"
    /\ LET db_user == First(UsersByTelegramId(users, sess[s].user.telegram_id))
           db_group == First(GroupsByName(groups, sess[s].name))
           row == Link(db_user, db_group)
       IN  IF row \in groups_users
           THEN /\ groups_users' = groups_users
                /\ sess' = [sess EXCEPT ![s] = Done(s, "IntegrityError", NoReturn)]
           ELSE /\ groups_users' = groups_users \cup {row}
                /\ sess' = [sess EXCEPT ![s] =
                        Done(s, Ok, TelegramGroupedUser(groups, groups_users',
                                                        groups_admins, db_user))]
    /\ UNCHANGED <<users, groups, groups_admins, last, taps>>

KickCheck == \E s \in Sessions, t \in RaceTargets :
                kick_check(s, RaceGroup.name, RaceAdmin, t)
KickCommit == \E s \in Sessions : kick_commit(s)
PromoteCheck == \E s \in Sessions, t \in RaceTargets :
                    promote_check(s, RaceGroup.name, RaceAdmin, t)
PromoteCommit == \E s \in Sessions : promote_commit(s)
AssignCheck == \E s \in Sessions, u \in RaceTargets :
                    assign_check(s, RaceGroup.name, u)
AssignCommit == \E s \in Sessions : assign_commit(s)

NextRace ==
    \/ KickCheck
    \/ KickCommit
    \/ PromoteCheck
    \/ PromoteCommit
    \/ AssignCheck
    \/ AssignCommit
    \/ Finish

SpecRace == InitRace /\ [][NextRace]_vars

\* ==================================================================== taps
\* The taps table and its constraints.  Datetimes are the instants
\* 1..MaxTime; Null stands for NULL / None.
Null == -1
Times == 1..MaxTime

\* nagging_interval_seconds: default=300
DefaultNaggingInterval == 300
NaggingIntervals == {-10, 0, Null}
OneTelegramId == {10}

\* SQL comparisons and OR are three-valued: a comparison with NULL is unknown.
SqlGt(a, b) ==
    IF a = Null \/ b = Null THEN "unknown"
    ELSE IF a > b THEN "true" ELSE "false"

SqlIsNull(a) == IF a = Null THEN "true" ELSE "false"

SqlOr(p, q) ==
    IF p = "true" \/ q = "true" THEN "true"
    ELSE IF p = "unknown" \/ q = "unknown" THEN "unknown"
    ELSE "false"

\* a CHECK constraint rejects a row only when its expression is false
CheckHolds(v) == v # "false"

\* "acked_until IS NULL OR acked_until > created_at"
check_acked_until_after_created_at(t) ==
    SqlOr(SqlIsNull(t.acked_until), SqlGt(t.acked_until, t.created_at))

\* (variant: scheduled_datetime >= created_at)
check_scheduled_datetime_not_before_created_at(t) ==
    SqlOr(SqlGt(t.scheduled_datetime, t.created_at),
          IF t.scheduled_datetime = t.created_at THEN "true" ELSE "false")

\* "scheduled_datetime > created_at"
check_scheduled_datetime_after_created_at(t) ==
    SqlGt(t.scheduled_datetime, t.created_at)

\* (variant: nagging_interval_seconds >= 0)
check_nagging_interval_not_negative(t) ==
    SqlGt(t.nagging_interval_seconds + 1, 0)

\* "nagging_interval_seconds > 0"
check_nagging_interval_positive(t) ==
    SqlGt(t.nagging_interval_seconds, 0)

\* "acked_until > scheduled_datetime OR acked_until IS NULL"
check_acked_until_after_scheduled_datetime(t) ==
    SqlOr(SqlGt(t.acked_until, t.scheduled_datetime), SqlIsNull(t.acked_until))

\* the INSERT of a row passes the NOT NULL columns and the four CHECKs
TapAccepted(t) ==
    /\ t.scheduled_datetime # Null
    /\ CheckHolds(check_acked_until_after_created_at(t))
    /\ CheckHolds(check_scheduled_datetime_after_created_at(t))
    /\ CheckHolds(check_nagging_interval_positive(t))
    /\ CheckHolds(check_acked_until_after_scheduled_datetime(t))

\* Tap(source_user=..., scheduled_datetime=..., created_at=...,
\*     nagging_interval_seconds=..., acked_until=...): a nagging interval that
\* is not given takes the column default.  created_at is the value given, or
\* the reading of the clock at the INSERT.
Tap(source_user, scheduled_datetime, created_at, nagging_interval_seconds, acked_until) ==
    [id |-> NextId(taps), source_user_id |-> source_user.id,
     scheduled_datetime |-> scheduled_datetime,
     nagging_interval_seconds |->
        IF nagging_interval_seconds = Null THEN DefaultNaggingInterval
        ELSE nagging_interval_seconds,
     acked_until |-> acked_until,
     created_at |-> created_at]

TapCall(tap, err) ==
    [op |-> "commit_tap", group |-> "", actor |-> NoUser, target |-> NoUser,
     tuc |-> NoCreate, err |-> err, ret |-> NoReturn, tap |-> tap]

\* db.add(tap); db.commit(); and db.rollback() after a rejected commit
commit_tap(tap) ==
    /\ Cardinality(taps) < MaxTaps
    /\ IF TapAccepted(tap)
       THEN /\ taps' = taps \cup {tap}
            /\ last' = TapCall(tap, Ok)
       ELSE /\ taps' = taps
            /\ last' = TapCall(tap, "IntegrityError")
    /\ UNCHANGED <<users, groups, groups_users, groups_admins, sess>>

CommitTap ==
    \E u \in users, s \in Times \cup {Null}, c \in Times,
       n \in NaggingIntervals, a \in Times \cup {Null} :
        commit_tap(Tap(u, s, c, n, a))

NextTap ==
    \/ CreateUser(OneTelegramId)
    \/ CommitTap

SpecTap == Init /\ [][NextTap]_vars

\* ================================================================= claims
\* ValueErrors raised by the services before any write
PreconditionErrors ==
    {"GroupAlreadyExists", "CreatorNotFound",
     "GroupNotFound", "AdminNotFound", "NotAnAdmin", "NewAdminNotFound",
     "NewAdminNotMember", "UserNotFound",
     "KickerNotFound", "TargetNotFound", "SelfKick", "KickerNotMember",
     "TargetNotMember", "KickerNotAdmin", "TargetIsAdmin"}

\* C1: kick_from_group succeeds only if kicker K and target T are persisted,
\* K # T, the group G exists, K and T are members of G, K is an admin of G and
\* T is not; otherwise it fails with the error of the first violated
\* precondition in the order K NotFound, T NotFound, SelfKickForbidden,
\* G NotFound, K NotMember, T NotMember, K NotAuthorized, TargetIsAdmin.
C1_KickFirstViolatedPrecondition ==
    [][last'.op = "kick_from_group" =>
        LET K == {u.id : u \in {x \in users : x.telegram_id = last'.actor.telegram_id}}
            T == {u.id : u \in {x \in users : x.telegram_id = last'.target.telegram_id}}
            G == {g.id : g \in {x \in groups : x.name = last'.group}}
            members == {l.user_id : l \in {x \in groups_users : x.group_id \in G}}
            admins == {l.user_id : l \in {x \in groups_admins : x.group_id \in G}}
            expected ==
                IF K = {} THEN "KickerNotFound"
                ELSE IF T = {} THEN "TargetNotFound"
                ELSE IF K = T THEN "SelfKick"
                ELSE IF G = {} THEN "GroupNotFound"
                ELSE IF ~(K \subseteq members) THEN "KickerNotMember"
                ELSE IF ~(T \subseteq members) THEN "TargetNotMember"
                ELSE IF ~(K \subseteq admins) THEN "KickerNotAdmin"
                ELSE IF T \subseteq admins THEN "TargetIsAdmin"
                ELSE Ok
        IN  last'.err = expected]_vars

\* C1 witness: a stored kicker who is neither member nor admin of the existing
\* group tried to kick another stored user and got the NotMember error.
C1_Witness ==
    /\ last.op = "kick_from_group"
    /\ last.err = "KickerNotMember"
    /\ \E k \in users, t \in users, g \in groups :
        /\ k.telegram_id = last.actor.telegram_id
        /\ t.telegram_id = last.target.telegram_id
        /\ k # t
        /\ g.name = last.group
        /\ Link(k, g) \notin groups_users
        /\ Link(k, g) \notin groups_admins

\* C2: promote_to_admin checks, in this order, that the group exists
\* (NotFound), the acting admin A is persisted (NotFound), A is an admin of the
\* group (NotAuthorized), the target T is persisted (NotFound) and T is a
\* member (NotMember); it fails with the error of the first violated one and
\* succeeds exactly when all five hold.
C2_PromoteFirstViolatedPrecondition ==
    [][last'.op = "promote_to_admin" =>
        LET A == {u.id : u \in {x \in users : last'.actor.id # NoId /\ x.id = last'.actor.id}}
            T == {u.id : u \in {x \in users : last'.target.id # NoId /\ x.id = last'.target.id}}
            G == {g.id : g \in {x \in groups : x.name = last'.group}}
            members == {l.user_id : l \in {x \in groups_users : x.group_id \in G}}
            admins == {l.user_id : l \in {x \in groups_admins : x.group_id \in G}}
            expected ==
                IF G = {} THEN "GroupNotFound"
                ELSE IF A = {} THEN "AdminNotFound"
                ELSE IF ~(A \subseteq admins) THEN "NotAnAdmin"
                ELSE IF T = {} THEN "NewAdminNotFound"
                ELSE IF ~(T \subseteq members) THEN "NewAdminNotMember"
                ELSE Ok
        IN  last'.err = expected]_vars

\* C2 witness: a stored non-admin tried to promote a target that is not
\* stored, and got the not-an-admin error.
C2_Witness ==
    /\ last.op = "promote_to_admin"
    /\ last.err = "NotAnAdmin"
    /\ \E a \in users : a.id = last.actor.id
    /\ \A t \in users : t.id # last.target.id

C4_AdminsAreMembers ==
    \A l \in groups_admins : l \in groups_users

\* C5: a successful create_group adds exactly one group, whose members and
\* admins are both exactly the founder, leaves every other group and its
\* members and admins and all users unchanged, and returns that group with
\* its users and admins.
C5_CreateGroupEffect ==
    [][(last'.op = "create_group" /\ last'.err = Ok) =>
        \E g \in groups' : \E f \in users :
            /\ g \notin groups
            /\ groups' = groups \cup {g}
            /\ g.name = last'.group
            /\ f.id = last'.actor.id
            /\ users' = users
            /\ \A l \in groups_users : l.group_id # g.id
            /\ \A l \in groups_admins : l.group_id # g.id
            /\ groups_users' = groups_users \cup {[user_id |-> f.id, group_id |-> g.id]}
            /\ groups_admins' = groups_admins \cup {[user_id |-> f.id, group_id |-> g.id]}
            /\ last'.ret = [id |-> g.id, name |-> g.name,
                            admins |-> {f}, users |-> {f}]]_vars

\* C5 witness: a create_group call has just returned a group with one user
\* and one admin, while another group has two users and one admin.
C5_Witness ==
    /\ last.op = "create_group"
    /\ last.err = Ok
    /\ Cardinality(last.ret.users) = 1
    /\ last.ret.users = last.ret.admins
    /\ \E g \in groups :
        /\ g.id # last.ret.id
        /\ Cardinality({l \in groups_users : l.group_id = g.id}) = 2
        /\ Cardinality({l \in groups_admins : l.group_id = g.id}) = 1

\* C6: create_group fails with the already-exists error whenever a group of
\* that name is stored, whether or not the creator is a stored user, and
\* creates no group and no association row.
C6_CreateGroupAlreadyExists ==
    [][(last'.op = "create_group" /\ \E g \in groups : g.name = last'.group) =>
        (last'.err = "GroupAlreadyExists" /\ UNCHANGED db)]_vars

\* C6 witness: the already-exists error for a creator that is not stored.
C6_Witness ==
    /\ last.op = "create_group"
    /\ last.err = "GroupAlreadyExists"
    /\ \A u \in users : u.id # last.actor.id

\* C7: create_group with an unused name and a creator that is not a stored
\* user fails with the creator-not-found error, and no group of that name
\* exists afterwards.
C7_CreateGroupCreatorNotFound ==
    [][(/\ last'.op = "create_group"
        /\ \A g \in groups : g.name # last'.group
        /\ \A u \in users : last'.actor.id = NoId \/ u.id # last'.actor.id) =>
        (/\ last'.err = "CreatorNotFound"
         /\ \A g \in groups' : g.name # last'.group)]_vars

\* C7 witness: the creator-not-found error, users being stored, and no group
\* of the requested name.
C7_Witness ==
    /\ last.op = "create_group"
    /\ last.err = "CreatorNotFound"
    /\ users # {}
    /\ \A g \in groups : g.name # last.group

\* C8: no two stored groups have the same name, also when create_group calls
\* of several sessions interleave.
C8_GroupNamesUnique ==
    \A g1 \in groups, g2 \in groups : g1.name = g2.name => g1 = g2

\* C8 witness: two create_group calls for one name raced; one committed the
\* group and the other's flush was rejected.
C8_Witness ==
    \E s \in Sessions :
        /\ sess[s].pc = "done"
        /\ sess[s].op = "create_group"
        /\ sess[s].err = "IntegrityError"
        /\ \E g \in groups : g.name = sess[s].name

\* C9: create_user calls that run one after another are idempotent and
\* convergent: a call for a positive telegram id succeeds, returns the
\* username of the request and leaves exactly one user for the telegram id;
\* if the telegram id was stored before, the internal id returned is the stored
\* one and no other field of the row changes; and a call that follows a call
\* for the same telegram id returns the same internal id.
C9_UpsertIdempotent ==
    [][(last'.op = "create_user" /\ last'.tuc.telegram_id > 0) =>
        LET tuc == last'.tuc
            before == {u \in users : u.telegram_id = tuc.telegram_id}
            after == {u \in users' : u.telegram_id = tuc.telegram_id}
        IN  /\ last'.err = Ok
            /\ Cardinality(after) = 1
            /\ last'.ret \in after
            /\ last'.ret.telegram_username = tuc.telegram_username
            /\ \A u \in users : u.telegram_id # tuc.telegram_id => u \in users'
            /\ \A u \in users' : u.telegram_id # tuc.telegram_id => u \in users
            /\ \A u \in before :
                /\ last'.ret.id = u.id
                /\ last'.ret.telegram_chat_id = u.telegram_chat_id
                /\ (u.telegram_username = tuc.telegram_username => users' = users)
            /\ (/\ last.op = "create_user"
                /\ last.err = Ok
                /\ last.tuc.telegram_id = tuc.telegram_id) =>
                    /\ last'.ret.id = last.ret.id
                    /\ (last.tuc.telegram_username = tuc.telegram_username
                            => last'.ret = last.ret)]_vars

\* C9 witness: a call for a telegram id that was stored before (the stored
\* chat id is not the one of the request) returned the new username "User2"
\* while another user is stored too.
C9_Witness ==
    /\ last.op = "create_user"
    /\ last.err = Ok
    /\ last.ret.telegram_chat_id # last.tuc.telegram_chat_id
    /\ last.ret.telegram_username = "User2"
    /\ Cardinality(users) = 2

\* C10 (as claimed): every create_user call of concurrent sessions completes
\* without an error, and calls for the same telegram id return the same
\* internal id.
C10_ConcurrentUpsertNeverFails ==
    \A s \in Sessions :
        (sess[s].pc = "done" /\ sess[s].op = "create_user") =>
            /\ sess[s].err = Ok
            /\ \A t \in Sessions :
                (/\ sess[t].pc = "done"
                 /\ sess[t].op = "create_user"
                 /\ sess[t].err = Ok
                 /\ sess[t].tuc.telegram_id = sess[s].tuc.telegram_id)
                    => sess[t].ret.id = sess[s].ret.id

\* C11: no two stored users have the same telegram id, also when create_user
\* calls of several sessions interleave.
C11_TelegramIdsUnique ==
    \A u1 \in users, u2 \in users : u1.telegram_id = u2.telegram_id => u1 = u2

\* C11 witness: two create_user calls for one new telegram id raced; one
\* committed the user and the other's INSERT was rejected.
C11_Witness ==
    \E s \in Sessions :
        /\ sess[s].pc = "done"
        /\ sess[s].op = "create_user"
        /\ sess[s].err = "IntegrityError"
        /\ \E u \in users : u.telegram_id = sess[s].tuc.telegram_id

\* C12: promote_to_admin is idempotent: when the group exists, the acting
\* admin is a stored admin of it and the target is a stored member that is
\* already an admin, the call succeeds, changes no table, and returns the
\* group with the admins it had, the target among them once.
C12_PromoteIdempotent ==
    [][(/\ last'.op = "promote_to_admin"
        /\ \E g \in groups, a \in users, t \in users :
            /\ g.name = last'.group
            /\ last'.actor.id # NoId /\ a.id = last'.actor.id
            /\ last'.target.id # NoId /\ t.id = last'.target.id
            /\ [user_id |-> a.id, group_id |-> g.id] \in groups_admins
            /\ [user_id |-> t.id, group_id |-> g.id] \in groups_users
            /\ [user_id |-> t.id, group_id |-> g.id] \in groups_admins) =>
        (/\ last'.err = Ok
         /\ UNCHANGED db
         /\ \E g \in groups :
            /\ g.name = last'.group
            /\ {u.id : u \in last'.ret.admins}
                 = {l.user_id : l \in {x \in groups_admins : x.group_id = g.id}}
            /\ Cardinality(last'.ret.admins)
                 = Cardinality({x \in groups_admins : x.group_id = g.id})
            /\ Cardinality({u \in last'.ret.admins : u.id = last'.target.id}) = 1)]_vars

\* C12 witness: a founder promoted a member that was promoted before, the
\* target not being the founder; the group has two admins.
C12_Witness ==
    /\ last.op = "promote_to_admin"
    /\ last.err = Ok
    /\ last.actor.id # last.target.id
    /\ Cardinality(last.ret.admins) = 2
    /\ Cardinality(groups_admins) = 2

\* C13: a successful promote_to_admin leaves the group's admins as the old
\* admins plus the target and changes nothing else (members, other groups,
\* users); the returned group shows the new admins.
C13_PromoteEffect ==
    [][(last'.op = "promote_to_admin" /\ last'.err = Ok) =>
        \E g \in groups, t \in users :
            /\ g.name = last'.group
            /\ t.id = last'.target.id
            /\ groups_admins' = groups_admins \cup {[user_id |-> t.id, group_id |-> g.id]}
            /\ UNCHANGED <<users, groups, groups_users>>
            /\ last'.ret.id = g.id
            /\ last'.ret.name = g.name
            /\ last'.ret.admins =
                    {u \in users : \/ [user_id |-> u.id, group_id |-> g.id] \in groups_admins
                                   \/ u = t}
            /\ last'.ret.users =
                    {u \in users : [user_id |-> u.id, group_id |-> g.id] \in groups_users}]_vars

\* C13 witness: the founder of a group promoted the member that joined, the
\* group's admins are now exactly the two of them, and another group exists.
C13_Witness ==
    /\ last.op = "promote_to_admin"
    /\ last.err = Ok
    /\ last.actor.id # last.target.id
    /\ {u.id : u \in last.ret.admins} = {last.actor.id, last.target.id}
    /\ {l.user_id : l \in {x \in groups_admins : x.group_id = last.ret.id}}
            = {last.actor.id, last.target.id}
    /\ \E g \in groups : g.id # last.ret.id

\* C14: assign_group for a stored user and a stored group succeeds and
\* leaves the user a member of the group, adding the membership row only if
\* it was absent; a repeated call changes no table and returns the same
\* groups as the call before, the group among them once.
C14_AssignIdempotent ==
    [][(/\ last'.op = "assign_group"
        /\ \E u \in users : u.telegram_id = last'.actor.telegram_id
        /\ \E g \in groups : g.name = last'.group) =>
        \E u \in users, g \in groups :
            LET row == [user_id |-> u.id, group_id |-> g.id]
                GroupsOf(GU) ==
                    {[id |-> x.id, name |-> x.name] :
                        x \in {y \in groups : [user_id |-> u.id, group_id |-> y.id] \in GU}}
            IN  /\ u.telegram_id = last'.actor.telegram_id
                /\ g.name = last'.group
                /\ last'.err = Ok
                /\ groups_users' = groups_users \cup {row}
                /\ UNCHANGED <<users, groups, groups_admins>>
                /\ last'.ret.id = u.id
                /\ last'.ret.groups = GroupsOf(groups_users) \cup {[id |-> g.id, name |-> g.name]}
                /\ Cardinality({x \in last'.ret.groups : x.name = g.name}) = 1
                /\ row \in groups_users =>
                        (UNCHANGED db /\ last'.ret.groups = GroupsOf(groups_users))
                /\ (last.op = "assign_group" /\ last.err = Ok
                        /\ last.actor = last'.actor /\ last.group = last'.group) =>
                        (UNCHANGED db /\ last'.ret = last.ret)]_vars

\* C14 witness: a user that founded no group was assigned to a group and is
\* now a member of two groups.
C14_Witness ==
    /\ last.op = "assign_group"
    /\ last.err = Ok
    /\ Cardinality(last.ret.groups) = 2
    /\ last.ret.admin_of_groups = {}

\* C15: assign_group fails with the user-not-found error when the user is
\* not stored (whether or not the group is), and with the group-not-found
\* error when the user is stored and the group is not; no table changes.
C15_AssignNotFound ==
    [][last'.op = "assign_group" =>
        LET user_stored == \E u \in users : u.telegram_id = last'.actor.telegram_id
            group_stored == \E g \in groups : g.name = last'.group
        IN  /\ ~user_stored => (last'.err = "UserNotFound" /\ UNCHANGED db)
            /\ (user_stored /\ ~group_stored) =>
                    (last'.err = "GroupNotFound" /\ UNCHANGED db)]_vars

\* C15 witness: neither the user nor the group of an assign_group call was
\* stored, other users being stored, and the call failed on the user.
C15_Witness ==
    /\ last.op = "assign_group"
    /\ last.err = "UserNotFound"
    /\ users # {}
    /\ \A u \in users : u.telegram_id # last.actor.telegram_id
    /\ \A g \in groups : g.name # last.group

\* C16: exit_from_group for a stored user and a stored group succeeds and
\* removes at most the user's membership row of that group (nothing when the
\* user is not a member); it fails with a not-found error and changes nothing
\* when the user or the group is not stored; memberships of other users and
\* of other groups, the users and the groups never change.
C16_ExitEffect ==
    [][last'.op = "exit_from_group" =>
        LET U == {u \in users : u.telegram_id = last'.actor.telegram_id}
            G == {g \in groups : g.name = last'.group}
            rows == {[user_id |-> u.id, group_id |-> g.id] : u \in U, g \in G}
        IN  /\ UNCHANGED <<users, groups>>
            /\ U = {} => (last'.err = "UserNotFound" /\ UNCHANGED db)
            /\ (U # {} /\ G = {}) => (last'.err = "GroupNotFound" /\ UNCHANGED db)
            /\ (U # {} /\ G # {}) =>
                /\ last'.err = Ok
                /\ groups_users' = groups_users \ rows
                /\ (rows \cap groups_users = {}) => UNCHANGED groups_users
                /\ last'.ret.groups =
                        {[id |-> g.id, name |-> g.name] :
                            g \in {x \in groups :
                                \E u \in U : [user_id |-> u.id, group_id |-> x.id]
                                                \in groups_users'}}]_vars

\* C16 witness: a user left a group that still has another member and
\* remains a member of another group.
C16_Witness ==
    /\ last.op = "exit_from_group"
    /\ last.err = Ok
    /\ Cardinality(last.ret.groups) = 1
    /\ \E g \in groups :
        /\ g.name = last.group
        /\ \E l \in groups_users : l.group_id = g.id /\ l.user_id # last.ret.id

\* C17: exit_from_group never changes the admins of any group; a user that
\* was an admin of the group it leaves is still an admin of it afterwards.
C17_ExitKeepsAdmins ==
    [][last'.op = "exit_from_group" => groups_admins' = groups_admins]_vars

\* C17 witness: a user has left a group with success and is an admin of the
\* group without being a member of it.
C17_Witness ==
    /\ last.op = "exit_from_group"
    /\ last.err = Ok
    /\ \E g \in groups :
        /\ g.name = last.group
        /\ [user_id |-> last.ret.id, group_id |-> g.id] \in groups_admins
        /\ [user_id |-> last.ret.id, group_id |-> g.id] \notin groups_users

\* C18: a successful kick_from_group removes exactly the target's membership
\* row of the group: the target is afterwards neither a member nor an admin of
\* the group, the kicker is still a member and an admin, every other
\* membership, all admins, users and groups are unchanged, and the returned
\* user is the target with its remaining groups, the group not among them.
C18_KickEffect ==
    [][(last'.op = "kick_from_group" /\ last'.err = Ok) =>
        \E g \in groups, k \in users, t \in users :
            LET row == [user_id |-> t.id, group_id |-> g.id] IN
            /\ g.name = last'.group
            /\ k.telegram_id = last'.actor.telegram_id
            /\ t.telegram_id = last'.target.telegram_id
            /\ row \in groups_users
            /\ groups_users' = groups_users \ {row}
            /\ UNCHANGED <<users, groups, groups_admins>>
            /\ row \notin groups_users'
            /\ row \notin groups_admins'
            /\ [user_id |-> k.id, group_id |-> g.id] \in groups_users'
            /\ [user_id |-> k.id, group_id |-> g.id] \in groups_admins'
            /\ last'.ret.id = t.id
            /\ last'.ret.telegram_id = t.telegram_id
            /\ last'.ret.groups =
                    {[id |-> x.id, name |-> x.name] :
                        x \in {y \in groups : /\ y # g
                                              /\ [user_id |-> t.id, group_id |-> y.id]
                                                    \in groups_users}}
            /\ \A x \in last'.ret.groups : x.name # g.name]_vars

\* C18 witness: an admin kicked a member out of a group in which a third
\* user is still a member.
C18_Witness ==
    /\ last.op = "kick_from_group"
    /\ last.err = Ok
    /\ \E g \in groups :
        /\ g.name = last.group
        /\ \E l \in groups_users :
            /\ l.group_id = g.id
            /\ l.user_id # last.actor.id
            /\ l.user_id # last.ret.id

\* C19: every stored tap satisfies the four constraints: acked_until is
\* absent or after created_at, scheduled_datetime is after created_at,
\* nagging_interval_seconds is positive, acked_until is absent or after
\* scheduled_datetime.
C19_TapInvariants ==
    \A t \in taps :
        /\ t.acked_until = Null \/ t.acked_until > t.created_at
        /\ t.scheduled_datetime # Null /\ t.scheduled_datetime > t.created_at
        /\ t.nagging_interval_seconds > 0
        /\ t.acked_until = Null \/ t.acked_until > t.scheduled_datetime

\* C19 witness: two taps are stored, one acknowledged and one not.
C19_Witness ==
    /\ \E t \in taps : t.acked_until # Null
    /\ \E t \in taps : t.acked_until = Null

\* C20: the commit of a tap that violates one of the four constraints
\* (acked_until <= created_at, scheduled_datetime <= created_at,
\* nagging_interval_seconds <= 0, acked_until <= scheduled_datetime) fails,
\* stores no tap and leaves the stored users and taps as they were.
C20_TapViolationRejected ==
    [][(/\ last'.op = "commit_tap"
        /\ LET t == last'.tap IN
            \/ t.acked_until # Null /\ t.acked_until <= t.created_at
            \/ t.scheduled_datetime # Null /\ t.scheduled_datetime <= t.created_at
            \/ t.nagging_interval_seconds <= 0
            \/ /\ t.acked_until # Null /\ t.scheduled_datetime # Null
               /\ t.acked_until <= t.scheduled_datetime) =>
        (/\ last'.err = "IntegrityError"
         /\ taps' = taps
         /\ users' = users)]_vars

\* C20 witness: a tap whose only fault is scheduled_datetime = created_at was
\* rejected while a tap was stored.
C20_Witness ==
    /\ last.op = "commit_tap"
    /\ last.err = "IntegrityError"
    /\ last.tap.scheduled_datetime = last.tap.created_at
    /\ last.tap.acked_until = Null
    /\ last.tap.nagging_interval_seconds > 0
    /\ taps # {}

\* C21: get_grouped_user changes no table; for a telegram id that is not
\* stored it returns nothing, and for a stored user it returns the user with
\* exactly the groups it is a member of and exactly the groups it is an admin
\* of, whatever calls came before.
C21_GroupedUserProjection ==
    [][last'.op = "get_grouped_user" =>
        LET U == {u \in users : u.telegram_id = last'.actor.telegram_id} IN
        /\ UNCHANGED db
        /\ last'.err = Ok
        /\ U = {} => last'.ret = NoReturn
        /\ \A u \in U :
            /\ last'.ret.id = u.id
            /\ last'.ret.telegram_id = u.telegram_id
            /\ last'.ret.groups =
                    {[id |-> g.id, name |-> g.name] :
                        g \in {x \in groups :
                            [user_id |-> u.id, group_id |-> x.id] \in groups_users}}
            /\ last'.ret.admin_of_groups =
                    {[id |-> g.id, name |-> g.name] :
                        g \in {x \in groups :
                            [user_id |-> u.id, group_id |-> x.id] \in groups_admins}}]_vars

\* C21 witness: the lookup returned a user that is a member of one group and
\* an admin of another one (it left the group it founded and joined another).
C21_Witness ==
    /\ last.op = "get_grouped_user"
    /\ last.err = Ok
    /\ last.ret # NoReturn
    /\ Cardinality(last.ret.groups) = 1
    /\ Cardinality(last.ret.admin_of_groups) = 1
    /\ last.ret.groups # last.ret.admin_of_groups

\* C22: get_group_by_name changes no table; it returns nothing when no
\* stored group has exactly the requested name (a name that differs in case
\* does not match) and otherwise the group of exactly that name, with the id
\* that create_group returned for it.
C22_GetGroupByName ==
    [][last'.op = "get_group_by_name" =>
        LET G == {g \in groups : g.name = last'.group} IN
        /\ UNCHANGED db
        /\ last'.err = Ok
        /\ G = {} => last'.ret = NoReturn
        /\ \A g \in G :
            /\ last'.ret.id = g.id
            /\ last'.ret.name = last'.group
            /\ {u.id : u \in last'.ret.users}
                 = {l.user_id : l \in {x \in groups_users : x.group_id = g.id}}
            /\ {u.id : u \in last'.ret.admins}
                 = {l.user_id : l \in {x \in groups_admins : x.group_id = g.id}}
        /\ (last.op = "create_group" /\ last.err = Ok /\ last.group = last'.group) =>
                last'.ret = last.ret]_vars

\* C22 witness: the lookup of "test group" returned nothing while the group
\* "Test Group" is stored.
C22_Witness ==
    /\ last.op = "get_group_by_name"
    /\ last.group = "test group"
    /\ last.ret = NoReturn
    /\ \E g \in groups : g.name = "Test Group"

\* C23: of the valid /start events handled one after another for one
\* telegram id, exactly the first is answered "Hello, welcome new user
\* @<username>!" and every later one "Hello, welcome back @<username>!", the
\* username being the one of the event answered; the user is stored after
\* the first event, so no later event is a first one.
C23_StartReplies ==
    [][(last'.op = "start" /\ last'.tuc.telegram_username # NoName) =>
        LET seen == \E u \in users : u.telegram_id = last'.tuc.telegram_id
            name == last'.tuc.telegram_username
        IN  /\ last'.err = Ok
            /\ ~seen => last'.reply = "Hello, welcome new user @" \o name \o "!"
            /\ seen => last'.reply = "Hello, welcome back @" \o name \o "!"
            /\ \E u \in users' : u.telegram_id = last'.tuc.telegram_id
            /\ \A u \in users : \E v \in users' : v.telegram_id = u.telegram_id]_vars

\* C23 witness: a stored user sent /start with the username "User2" and was
\* welcomed back under that name, two users being stored.
C23_Witness ==
    /\ last.op = "start"
    /\ last.reply = "Hello, welcome back @User2!"
    /\ Cardinality(users) = 2

C25_AbsentNameAccepted ==
    [][(/\ last'.op \in {"create_user", "TelegramUserCreate"}
        /\ last'.tuc.telegram_username = NoName
        /\ last'.tuc.telegram_id > 0
        /\ \A u \in users : u.telegram_id # last'.tuc.telegram_id) =>
        (/\ last'.err = Ok
         /\ \E u \in users' :
                /\ u.telegram_id = last'.tuc.telegram_id
                /\ u.telegram_username = NoName)]_vars

\* C26 (as claimed): every stored user has a telegram id greater than 0.
C26_StoredIdsPositive ==
    \A u \in users : u.telegram_id > 0

\* C27: when calls run one after another, every step that adds a user to
\* the admins of a group (create_group for the founder, promote_to_admin for
\* the target) leaves that user a member of the group.
C27_NewAdminsAreMembers ==
    [][\A l \in groups_admins' : l \notin groups_admins => l \in groups_users']_vars

\* C27 witness: a promotion has made a second user admin of a group in
\* which a third user is a member without being an admin.
C27_Witness ==
    /\ last.op = "promote_to_admin"
    /\ last.err = Ok
    /\ last.actor.id # last.target.id
    /\ [user_id |-> last.target.id, group_id |-> last.ret.id] \in groups_admins
    /\ [user_id |-> last.target.id, group_id |-> last.ret.id] \in groups_users
    /\ \E l \in groups_users :
        /\ l.group_id = last.ret.id
        /\ l.user_id \notin {last.actor.id, last.target.id}
        /\ l \notin groups_admins

\* storage errors raised by a flush
StorageErrors == {"IntegrityError", "StaleDataError"}

\* C28 (as claimed): however kick_from_group and promote_to_admin calls of
\* concurrent sessions interleave, no committed state has a user among the
\* admins of a group of which it is not a member.
C28_NoKickedAdmin ==
    \A g \in groups, u \in users :
        [user_id |-> u.id, group_id |-> g.id] \in groups_admins
            => [user_id |-> u.id, group_id |-> g.id] \in groups_users

\* C29 (as claimed): concurrent assign_group calls for one user and group,
\* and concurrent promote_to_admin calls for one target, all complete
\* without a storage error.
C29_DuplicateCheckHarmless ==
    \A s \in Sessions :
        (sess[s].pc = "done" /\ sess[s].op \in {"assign_group", "promote_to_admin"})
            => sess[s].err \notin StorageErrors

\* C30 (as claimed): a create_group call of concurrent sessions that does not
\* succeed fails with the creator-not-found or the already-exists error; a
\* name taken by a concurrent call surfaces as the already-exists error.
C30_NameRaceAlreadyExists ==
    \A s \in Sessions :
        (sess[s].pc = "done" /\ sess[s].op = "create_group")
            => sess[s].err \in {Ok, "CreatorNotFound", "GroupAlreadyExists"}


\* C31: after the /start handler has returned or raised, no Session that it
\* obtained from get_session is left open.
C31_StartClosesSession ==
    [][last'.op = "start" => last'.session # "open"]_vars

\* C32: no call removes a row of groups_admins: from one state to the next
\* the admins of every group only grow, the creator of a new group is among
\* its admins, and so every stored group has an admin in every state.
C32_AdminSetsOnlyGrow ==
    [][/\ groups_admins \subseteq groups_admins'
       /\ \A g \in groups' : \E l \in groups_admins' : l.group_id = g.id
       /\ (last'.op = "create_group" /\ last'.err = Ok) =>
              \E g \in groups' \ groups :
                  [user_id |-> last'.actor.id, group_id |-> g.id] \in groups_admins'
      ]_vars

\* C32 witness: the creator of the group (user 1) has left it after another
\* admin was promoted, and both are still admins.
C32_Witness ==
    /\ last.op = "exit_from_group"
    /\ last.err = Ok
    /\ last.ret.id = 1
    /\ last.ret.groups = {}
    /\ Cardinality(last.ret.admin_of_groups) = 1
    /\ Cardinality(groups_admins) = 2

\* The stored users a call acts for: the group service resolves the acting
\* user by id, the user service by telegram id.
ActingUsers ==
    IF last'.op \in {"create_group", "promote_to_admin"}
    THEN UsersById(users, last'.actor.id)
    ELSE IF last'.op \in {"assign_group", "exit_from_group", "kick_from_group"}
    THEN UsersByTelegramId(users, last'.actor.telegram_id)
    ELSE {}

\* C33: a call whose acting user is not an admin of a group leaves the admins
\* of that group unchanged, and changes its members by nothing but the acting
\* user's own row, through assign_group or exit_from_group; promote_to_admin
\* and kick_from_group by such a user fail and change nothing.
C33_NonAdminChangesNothing ==
    [][\A g \in groups :
        (\A a \in ActingUsers : Link(a, g) \notin groups_admins) =>
            /\ {l \in groups_admins' : l.group_id = g.id}
                   = {l \in groups_admins : l.group_id = g.id}
            /\ \A l \in (groups_users \ groups_users') \cup (groups_users' \ groups_users) :
                   l.group_id = g.id =>
                       /\ last'.op \in {"assign_group", "exit_from_group"}
                       /\ \E a \in ActingUsers : l.user_id = a.id
            /\ (last'.op \in {"promote_to_admin", "kick_from_group"}
                    /\ last'.group = g.name) =>
                   /\ last'.err \notin {Ok} \cup StorageErrors
                   /\ UNCHANGED db
      ]_vars

\* C33 witness: a member that is not an admin tried to kick another member
\* that is not an admin, and was refused.
C33_Witness ==
    /\ last.op = "kick_from_group"
    /\ last.err = "KickerNotAdmin"
    /\ \E k \in users, t \in users, g \in groups :
        /\ k.telegram_id = last.actor.telegram_id
        /\ t.telegram_id = last.target.telegram_id
        /\ g.name = last.group
        /\ Link(k, g) \in groups_users /\ Link(k, g) \notin groups_admins
        /\ Link(t, g) \in groups_users /\ Link(t, g) \notin groups_admins

\* C34: a user that is a member and an admin of a group stops being a member
\* only by an exit_from_group call for that group naming that user; no
\* kick_from_group, by whichever kicker, removes the user.
C34_AdminLeavesOnlyByExit ==
    [][\A l \in groups_users \cap groups_admins :
        l \notin groups_users' =>
            /\ last'.op = "exit_from_group"
            /\ last'.err = Ok
            /\ last'.ret.id = l.user_id
            /\ \E u \in users, g \in groups :
                /\ u.telegram_id = last'.actor.telegram_id
                /\ g.name = last'.group
                /\ Link(u, g) = l
      ]_vars

\* C34 witness: an admin other than the creator tried to kick the creator of
\* the group (user 1), a member and an admin, and was refused.
C34_Witness ==
    /\ last.op = "kick_from_group"
    /\ last.err = "TargetIsAdmin"
    /\ \E k \in users, t \in users, g \in groups :
        /\ k.telegram_id = last.actor.telegram_id
        /\ t.telegram_id = last.target.telegram_id
        /\ t.id = 1
        /\ g.name = last.group
        /\ {Link(k, g), Link(t, g)} \subseteq groups_users \cap groups_admins

\* C35: promote_to_admin by an admin that is no longer a member of the group
\* succeeds for a target that is a member, and the target is an admin
\* afterwards; promote_to_admin of a target that is an admin but no longer a
\* member fails with the new-admin-not-a-member error and changes nothing.
C35_PromoteByAbsentAdmin ==
    [][last'.op = "promote_to_admin" =>
        \A g \in groups, a \in users, t \in users :
            (/\ g.name = last'.group
             /\ a.id = last'.actor.id
             /\ t.id = last'.target.id
             /\ Link(a, g) \in groups_admins) =>
                /\ (Link(a, g) \notin groups_users /\ Link(t, g) \in groups_users) =>
                       /\ last'.err = Ok
                       /\ Link(t, g) \in groups_admins'
                       /\ Link(a, g) \notin groups_users'
                /\ (Link(t, g) \in groups_admins /\ Link(t, g) \notin groups_users) =>
                       /\ last'.err = "NewAdminNotMember"
                       /\ UNCHANGED db
      ]_vars

\* C35 witness: an admin that has left the group promoted a member that was
\* not an admin.
C35_Witness ==
    /\ last.op = "promote_to_admin"
    /\ last.err = Ok
    /\ [user_id |-> last.actor.id, group_id |-> last.ret.id] \in groups_admins
    /\ [user_id |-> last.actor.id, group_id |-> last.ret.id] \notin groups_users
    /\ [user_id |-> last.target.id, group_id |-> last.ret.id] \in groups_users
    /\ Cardinality(last.ret.admins) = 2

\* C35 witness, second case: the promotion of an admin that has left the
\* group was refused.
C35_WitnessAbsentTarget ==
    /\ last.op = "promote_to_admin"
    /\ last.err = "NewAdminNotMember"
    /\ \E g \in groups :
        /\ g.name = last.group
        /\ [user_id |-> last.target.id, group_id |-> g.id] \in groups_admins \ groups_users

\* C36: kick_from_group by an admin that has left the group fails with the
\* kicker-not-a-member error and changes nothing; assign_group of an admin
\* keeps the admin row, so that right after it the kick of every member that
\* is not an admin passes all checks, and such a kick removes the target.
C36_AdminRightsSurviveRejoin ==
    [][/\ last'.op = "kick_from_group" =>
            \A g \in groups, k \in users, t \in users :
                (/\ g.name = last'.group
                 /\ k.telegram_id = last'.actor.telegram_id
                 /\ t.telegram_id = last'.target.telegram_id
                 /\ k # t
                 /\ Link(k, g) \in groups_admins) =>
                    /\ Link(k, g) \notin groups_users =>
                           (last'.err = "KickerNotMember" /\ UNCHANGED db)
                    /\ (/\ Link(k, g) \in groups_users
                        /\ Link(t, g) \in groups_users \ groups_admins) =>
                           (last'.err = Ok /\ Link(t, g) \notin groups_users')
       /\ (last'.op = "assign_group" /\ last'.err = Ok) =>
            \A g \in groups, a \in users :
                (/\ g.name = last'.group
                 /\ a.telegram_id = last'.actor.telegram_id
                 /\ Link(a, g) \in groups_admins) =>
                    /\ Link(a, g) \in groups_admins' \cap groups_users'
                    /\ \A t \in users :
                           Link(t, g) \in groups_users' \ groups_admins' =>
                               KickError(users', groups', groups_users', groups_admins',
                                         g.name, last'.actor,
                                         [id |-> t.id, telegram_id |-> t.telegram_id]) = Ok
      ]_vars

\* C36 witness: an admin that has left the group tried to kick a member that
\* is not an admin, and was refused as not being a member.
C36_Witness ==
    /\ last.op = "kick_from_group"
    /\ last.err = "KickerNotMember"
    /\ \E k \in users, t \in users, g \in groups :
        /\ k.telegram_id = last.actor.telegram_id
        /\ t.telegram_id = last.target.telegram_id
        /\ g.name = last.group
        /\ Link(k, g) \in groups_admins \ groups_users
        /\ Link(t, g) \in groups_users \ groups_admins

\* C36 witness, second case: an admin of the group was assigned to it while
\* a member that is not an admin was there to be kicked.
C36_WitnessRejoined ==
    /\ last.op = "assign_group"
    /\ last.err = Ok
    /\ last.ret.admin_of_groups # {}
    /\ last.ret.groups = last.ret.admin_of_groups
    /\ groups_users \ groups_admins # {}

\* C37: assign_group of a stored user to a stored group succeeds whatever the
\* admins of the group are, and the user is a member afterwards; in
\* particular the assign_group that follows a successful kick_from_group, for
\* the kicked user and the same group, succeeds and returns the user with the
\* group among its groups.
C37_KickedUserRejoins ==
    [][last'.op = "assign_group" =>
        /\ \A g \in groups, u \in users :
               (g.name = last'.group /\ u.telegram_id = last'.actor.telegram_id) =>
                   /\ last'.err = Ok
                   /\ Link(u, g) \in groups_users'
                   /\ UNCHANGED <<users, groups, groups_admins>>
        /\ (/\ last.op = "kick_from_group"
            /\ last.err = Ok
            /\ last'.group = last.group
            /\ last'.actor.telegram_id = last.target.telegram_id) =>
               /\ last'.err = Ok
               /\ last'.ret.id = last.ret.id
               /\ last.ret.groups = {}
               /\ {g.name : g \in last'.ret.groups} = {last.group}
               /\ last'.ret.admin_of_groups = {}
      ]_vars

\* C37 witness: a user that is not an admin of the group was assigned to it,
\* next to the admin.
C37_Witness ==
    /\ last.op = "assign_group"
    /\ last.err = Ok
    /\ Cardinality(last.ret.groups) = 1
    /\ last.ret.admin_of_groups = {}
    /\ Cardinality(groups_users) >= 2

\* C37 witness, the state before: a member was kicked and can be assigned
\* again.
C37_WitnessKicked ==
    /\ last.op = "kick_from_group"
    /\ last.err = Ok
    /\ last.ret.groups = {}
    /\ \E u \in users : u.telegram_id = last.target.telegram_id
    /\ \E g \in groups : g.name = last.group

\* C38: create_user for a telegram id that is stored changes nothing but the
\* username of that user's row: its id, telegram id and chat id stay as
\* stored even when the request carries another chat id, the groups and the
\* rows of groups_users and groups_admins stay, and when the username of the
\* request is the stored one no table changes at all.
C38_UpsertChangesNameOnly ==
    [][last'.op = "create_user" =>
        \A u \in users :
            u.telegram_id = last'.tuc.telegram_id =>
                /\ users' = (users \ {u})
                       \cup {[u EXCEPT !.telegram_username = last'.tuc.telegram_username]}
                /\ UNCHANGED <<groups, groups_users, groups_admins>>
                /\ last'.ret.id = u.id
                /\ last'.ret.telegram_chat_id = u.telegram_chat_id
                /\ u.telegram_username = last'.tuc.telegram_username => UNCHANGED db
      ]_vars

\* C38 witness: a member and admin of a group was upserted with a new
\* username and another chat id, and kept the stored chat id and its rows.
C38_Witness ==
    /\ last.op = "create_user"
    /\ last.err = Ok
    /\ last.ret.telegram_username = "User2"
    /\ last.ret.telegram_chat_id # last.tuc.telegram_chat_id
    /\ \E l \in groups_users \cap groups_admins : l.user_id = last.ret.id
    /\ Cardinality(groups_users) = 2

\* C39: create_group and promote_to_admin find their users by id alone,
\* assign_group, exit_from_group and kick_from_group by telegram id alone.
\* For a value without an id whose telegram id is stored, create_group fails
\* with the creator-not-found error and promote_to_admin with the
\* admin-not-found or new-admin-not-found error, while assign_group succeeds
\* for the user of the telegram id; and the two lookups of a value give the
\* same user exactly when its (id, telegram id) pair is the one of a stored
\* user.
C39_ServicesResolveByDifferentKeys ==
    [][/\ last'.op = "create_group" =>
            /\ (GroupsByName(groups, last'.group) = {}
                    /\ \A u \in users : u.id # last'.actor.id) =>
                   last'.err = "CreatorNotFound"
            /\ last'.err = Ok =>
                   /\ Cardinality(last'.ret.admins) = 1
                   /\ \A a \in last'.ret.admins : a.id = last'.actor.id
       /\ (last'.op = "promote_to_admin" /\ GroupsByName(groups, last'.group) # {}) =>
            /\ (\A u \in users : u.id # last'.actor.id) => last'.err = "AdminNotFound"
            /\ (last'.err \notin {"AdminNotFound", "NotAnAdmin"}
                    /\ \A u \in users : u.id # last'.target.id) =>
                   last'.err = "NewAdminNotFound"
            /\ last'.err = Ok =>
                   [user_id |-> last'.target.id, group_id |-> last'.ret.id]
                       \in groups_admins'
       /\ last'.op \in {"assign_group", "exit_from_group"} =>
            /\ (\A u \in users : u.telegram_id # last'.actor.telegram_id) =>
                   last'.err = "UserNotFound"
            /\ (GroupsByName(groups, last'.group) # {}
                    /\ \E u \in users : u.telegram_id = last'.actor.telegram_id) =>
                   /\ last'.err = Ok
                   /\ last'.ret.telegram_id = last'.actor.telegram_id
       /\ last'.op = "kick_from_group" =>
            /\ (\A u \in users : u.telegram_id # last'.actor.telegram_id) =>
                   last'.err = "KickerNotFound"
            /\ (last'.err # "KickerNotFound"
                    /\ \A u \in users : u.telegram_id # last'.target.telegram_id) =>
                   last'.err = "TargetNotFound"
            /\ last'.err = Ok => last'.ret.telegram_id = last'.target.telegram_id
       /\ \A v \in KeyUserValues :
            (/\ UsersById(users, v.id) # {}
             /\ UsersById(users, v.id) = UsersByTelegramId(users, v.telegram_id))
                <=> \E u \in users : u.id = v.id /\ u.telegram_id = v.telegram_id
      ]_vars

\* C39 witness: assign_group succeeded for a value without an id, and
\* create_group with the same value would find no creator.
C39_Witness ==
    /\ last.op = "assign_group"
    /\ last.err = Ok
    /\ last.actor.id = NoId
    /\ last.ret.id # NoId
    /\ UsersById(users, last.actor.id) = {}

\* C39 witness, group service: create_group failed for a value without an id
\* whose telegram id is stored.
C39_WitnessCreatorNotFound ==
    /\ last.op = "create_group"
    /\ last.err = "CreatorNotFound"
    /\ last.actor.id = NoId
    /\ \E u \in users : u.telegram_id = last.actor.telegram_id

\* C39 witness, mismatch: assign_group succeeded for a value whose id is the
\* one of another stored user than its telegram id.
C39_WitnessMismatch ==
    /\ last.op = "assign_group"
    /\ last.err = Ok
    /\ last.actor.id \notin {NoId, last.ret.id}
    /\ \E u \in users : u.id = last.actor.id

====
